---- MODULE Spec2Model ----
(***************************************************************************)
(* Listing acquisition pipeline of the bot backend: the paginated crawl    *)
(* (getLinksFromPage / scrapeAllListingsWithDetails), the concurrent       *)
(* per-listing detail enrichment (scrapeListingDetails over               *)
(* axiosWithRetry) and the final filter.  The three copies of the pipeline *)
(* (src/philsbot/ogbot.js, src/bot.js, ScraperService in                   *)
(* src/philsbot/services/chatService.js) are line-for-line the same; the   *)
(* model follows src/philsbot/ogbot.js.                                    *)
(*                                                                         *)
(* Texts are sequences of one-character strings, so that trim,             *)
(* toLowerCase, includes and the whitespace collapse of cleanText are      *)
(* computed as the code computes them.                                     *)
(***************************************************************************)
EXTENDS Integers, Sequences, FiniteSets, TLC

VARIABLES
  maxPages,          \* argument of scrapeAllListingsWithDetails
  allListings,       \* the accumulator
  currentPage,       \* page cursor
  foundInactive,     \* loop flag
  pc,                \* position of scrapeAllListingsWithDetails
  pageReq,           \* state of the result-page request in flight
  pageFetches,       \* history: page numbers requested with axios.get, in order
  responses,         \* history: what the origin answered to each page request
  tasks,             \* enrichment: one async callback per accumulated listing
  detailedListings,  \* enrichment: the array Promise.all resolves to
  dataset,           \* value returned by scrapeAllListingsWithDetails
  fRetries,          \* axiosWithRetry on its own: argument retries
  fDelay,            \* argument delay
  fI,                \* loop index i
  fPc,               \* position of the call
  fLog,              \* history: requests, failures and waits, in order
  fResult,           \* what the call returned or threw
  fnInput,           \* a pure helper on its own: the argument
  fnOutput,          \* and the value it returned
  rPc,               \* scrapeAndUpdate: position of the run
  rRun,              \* number of the run (one per cron tick or start)
  rFileName,         \* the local fileName of the run
  rEvents,           \* history: writes, upload calls and caught errors
  sessions,          \* ChatService: the keys of the sessions Map
  sessionObjs,       \* the session objects ever created, by session id
  timers,            \* the pending setTimeout callbacks
  timerCount,        \* number of setTimeout calls so far
  sockets,           \* per socket: connection state and its sessionId variable
  prompts,           \* the send_prompt handlers started, with their position
  assistant,         \* this.assistant
  cleanups,          \* cleanupSession calls awaiting threads.del
  threads,           \* history: the OpenAI threads created
  emits,             \* what the last step emitted to the clients
  calls              \* the OpenAI calls the last step made

pipeVars == <<maxPages, allListings, currentPage, foundInactive, pc, pageReq,
              pageFetches, responses, tasks, detailedListings, dataset>>

fetchVars == <<fRetries, fDelay, fI, fPc, fLog, fResult>>

fnVars == <<fnInput, fnOutput>>

runVars == <<rPc, rRun, rFileName, rEvents>>

\* The parts of the program outside the scraper functions.
chatVars == <<sessions, sessionObjs, timers, timerCount, sockets, prompts,
              assistant, cleanups, threads, emits, calls>>

restVars == <<runVars, chatVars>>

\* What a pipeline step leaves alone.
auxVars == <<fetchVars, fnVars, restVars>>

vars == <<pipeVars, fetchVars, fnVars, restVars>>

(***************************************************************************)
(* Bounds of the model.                                                    *)
(***************************************************************************)
MaxPagesArg == 3     \* maxPages is drawn from 0..MaxPagesArg
MaxNodes == 3        \* listing nodes the origin serves in one crawl, in total

(***************************************************************************)
(* Program constants.                                                      *)
(***************************************************************************)
Retries == 3         \* axiosWithRetry(url, retries = 3, ...)

Null == [null |-> TRUE]
Undefined == [undefined |-> TRUE]
NotCalled == [notCalled |-> TRUE]
Pending == [pending |-> TRUE]   \* a slot of Promise.all not settled yet

(***************************************************************************)
(* Text helpers: String.prototype.trim / toLowerCase / includes and        *)
(* cleanText.                                                              *)
(***************************************************************************)
UpperCase == <<"A","B","C","D","E","F","G","H","I","J","K","L","M",
               "N","O","P","Q","R","S","T","U","V","W","X","Y","Z">>
LowerCase == <<"a","b","c","d","e","f","g","h","i","j","k","l","m",
               "n","o","p","q","r","s","t","u","v","w","x","y","z">>

IsSpace(c) == c \in {" ", "\n", "\t"}

LowerChar(c) ==
  IF \E i \in 1..26 : UpperCase[i] = c
    THEN LowerCase[CHOOSE i \in 1..26 : UpperCase[i] = c]
    ELSE c

ToLowerCase(s) == [i \in 1..Len(s) |-> LowerChar(s[i])]

Includes(s, sub) ==
  \E i \in 0..(Len(s) - Len(sub)) : SubSeq(s, i + 1, i + Len(sub)) = sub

Trim(s) ==
  IF \A i \in 1..Len(s) : IsSpace(s[i])
    THEN << >>
    ELSE LET first == CHOOSE i \in 1..Len(s) :
                        /\ ~IsSpace(s[i])
                        /\ \A j \in 1..(i - 1) : IsSpace(s[j])
             last  == CHOOSE i \in 1..Len(s) :
                        /\ ~IsSpace(s[i])
                        /\ \A j \in (i + 1)..Len(s) : IsSpace(s[j])
         IN  SubSeq(s, first, last)

\* A white-space character followed by another one is dropped; the last of a
\* run becomes one space.
CollapsedChar(s, i) ==
  IF ~IsSpace(s[i]) THEN s[i]
  ELSE IF i < Len(s) /\ IsSpace(s[i + 1]) THEN "" ELSE " "

IsKeptChar(c) == c # ""

\* replace(/\s+/g, " ")
CollapseSpaces(s) ==
  SelectSeq([i \in 1..Len(s) |-> CollapsedChar(s, i)], IsKeptChar)

cleanText(text) == Trim(CollapseSpaces(text))

(***************************************************************************)
(* Characters, numbers and the pieces of regular-expression matching the   *)
(* parsers use.                                                            *)
(***************************************************************************)
Digits == {"0","1","2","3","4","5","6","7","8","9"}
IsDigit(c) == c \in Digits
\* [A-Z]
IsUpper(c) == \E i \in 1..26 : UpperCase[i] = c
IsLower(c) == \E i \in 1..26 : LowerCase[i] = c
\* \w
IsWord(c) == IsUpper(c) \/ IsLower(c) \/ IsDigit(c) \/ c = "_"

\* The multiplication sign of the room dimensions.
TimesSign == "×"

\* The character classes of the patterns: \s, \d, [\d,], [^.], \w,
\* [\d'\"×], [\d'\"] and [A-Z0-9].
InClass(c, class) ==
  CASE class = "space"      -> IsSpace(c)
    [] class = "digit"      -> IsDigit(c)
    [] class = "digitComma" -> IsDigit(c) \/ c = ","
    [] class = "notDot"     -> c # "."
    [] class = "word"       -> IsWord(c)
    [] class = "dimTimes"   -> IsDigit(c) \/ c \in {"'", "\"", TimesSign}
    [] class = "dim"        -> IsDigit(c) \/ c \in {"'", "\""}
    [] class = "upperDigit" -> IsUpper(c) \/ IsDigit(c)

Least(S) == CHOOSE x \in S : \A y \in S : x <= y
Greatest(S) == CHOOSE x \in S : \A y \in S : x >= y

\* The position after the longest run of characters of the class that
\* starts at position p; p itself when there is none.
FirstStop(p, n, stops) ==
  IF stops = {} THEN (IF p > n THEN p ELSE n + 1) ELSE Least(stops)

RunEnd(s, p, class) ==
  FirstStop(p, Len(s), {i \in p..Len(s) : ~InClass(s[i], class)})

\* The literal lit stands at position p of s.
LiteralAt(s, p, lit) ==
  /\ p + Len(lit) - 1 <= Len(s)
  /\ SubSeq(s, p, p + Len(lit) - 1) = lit

\* A JavaScript number that is an integer, one with a fractional part
\* (kept as its digits), and the value NaN.
Num(n) == [num |-> n]
Fraction(n, ds) == [num |-> n, frac |-> ds]
NaN == [nan |-> TRUE]

\* A call either returns a value or throws (here: a property read on null).
Returned(v) == [value |-> v]
Raised == [raised |-> "TypeError"]

DigitChars == <<"0","1","2","3","4","5","6","7","8","9">>
DigitValue(c) == (CHOOSE i \in 1..10 : DigitChars[i] = c) - 1

\* The longest prefix of s made of digits.
RECURSIVE DigitPrefix(_)
DigitPrefix(s) ==
  IF s = << >> \/ ~IsDigit(Head(s)) THEN << >>
  ELSE <<Head(s)>> \o DigitPrefix(Tail(s))

RECURSIVE SkipSpaces(_)
SkipSpaces(s) ==
  IF s # << >> /\ IsSpace(Head(s)) THEN SkipSpaces(Tail(s)) ELSE s

RECURSIVE DecimalValue(_)
DecimalValue(ds) ==
  IF ds = << >> THEN 0
  ELSE 10 * DecimalValue(SubSeq(ds, 1, Len(ds) - 1)) + DigitValue(ds[Len(ds)])

RECURSIVE StripTrailingZeros(_)
StripTrailingZeros(ds) ==
  IF ds # << >> /\ ds[Len(ds)] = "0"
    THEN StripTrailingZeros(SubSeq(ds, 1, Len(ds) - 1))
    ELSE ds

\* parseFloat on a text without sign or exponent: leading white space is
\* skipped, the longest prefix of the form digits[.digits] is converted and
\* what follows it is ignored; no digit at the start gives NaN.
ParseFloat(s) ==
  LET t == SkipSpaces(s)
      ip == DigitPrefix(t)
      rest == SubSeq(t, Len(ip) + 1, Len(t))
      fp == IF rest # << >> /\ Head(rest) = "."
              THEN DigitPrefix(Tail(rest)) ELSE << >>
  IN  IF ip = << >> /\ fp = << >> THEN NaN
      ELSE IF StripTrailingZeros(fp) = << >> THEN Num(DecimalValue(ip))
      ELSE Fraction(DecimalValue(ip), StripTrailingZeros(fp))

\* parseInt on a text without sign or radix prefix: leading white space is
\* skipped and the longest run of digits is converted; none gives NaN.
ParseInt(s) ==
  LET ds == DigitPrefix(SkipSpaces(s))
  IN  IF ds = << >> THEN NaN ELSE Num(DecimalValue(ds))

\* String.prototype.split(c) for a one-character separator.
RECURSIVE SplitOnChar(_, _)
SplitOnChar(s, c) ==
  IF \A i \in 1..Len(s) : s[i] # c
    THEN <<s>>
    ELSE LET p == CHOOSE i \in 1..Len(s) :
                    /\ s[i] = c
                    /\ \A j \in 1..(i - 1) : s[j] # c
         IN  <<SubSeq(s, 1, p - 1)>> \o SplitOnChar(SubSeq(s, p + 1, Len(s)), c)

\* .map(x => x.trim())
TrimEach(parts) == [i \in 1..Len(parts) |-> Trim(parts[i])]

\* replace(/,/g, "")
RECURSIVE StripCommas(_)
StripCommas(s) ==
  IF s = << >> THEN << >>
  ELSE IF Head(s) = "," THEN StripCommas(Tail(s))
  ELSE <<Head(s)>> \o StripCommas(Tail(s))

\* The result of String.prototype.match without /g is null or the array of
\* the captured groups with the index of the match; reading match[k] on null
\* throws.
Matched(p, gs) == [index |-> p, groups |-> gs]
Group(match, k) ==
  IF match = Null THEN Raised ELSE Returned(match.groups[k])

\* Of the matches found at the positions of the text, the leftmost one.
Leftmost(ms) ==
  IF ms = {} THEN Null
  ELSE CHOOSE m \in ms : \A o \in ms : m.index <= o.index

\* match?.[k] || d
GroupOr(match, k, d) ==
  IF match = Null THEN d
  ELSE IF match.groups[k] = << >> THEN d ELSE match.groups[k]

\* parts[i] || d with a zero-based index
PartOr(parts, i, d) ==
  IF i >= Len(parts) THEN d
  ELSE IF parts[i + 1] = << >> THEN d ELSE parts[i + 1]

(***************************************************************************)
(* The origin.  A result page is a sequence of li.mrp-listing-result       *)
(* nodes; a node carries data-listing-id, data-share-url and the raw text  *)
(* of its ".status-line span".  The origin may put any node on any page,   *)
(* may repeat nodes, may answer with an error, or may never answer.        *)
(***************************************************************************)
NodeActive ==
  [listingId |-> "101", shareUrl |-> "/listing/101",
   statusText |-> <<" ","A","c","t","i","v","e","\n">>]
NodeNoStatus ==
  [listingId |-> "102", shareUrl |-> "/listing/102", statusText |-> << >>]
NodeSold ==
  [listingId |-> "103", shareUrl |-> "/listing/103",
   statusText |-> <<"S","o","l","d">>]
NodePending ==
  [listingId |-> "104", shareUrl |-> "/listing/104",
   statusText |-> <<"S","A","L","E"," ","P","E","N","D","I","N","G">>]
NodeInactive ==
  [listingId |-> "105", shareUrl |-> "/listing/105",
   statusText |-> <<"I","n","a","c","t","i","v","e">>]
NodeNotActive ==
  [listingId |-> "106", shareUrl |-> "/listing/106",
   statusText |-> <<"N","o","t"," ","A","c","t","i","v","e">>]

Nodes == {NodeActive, NodeNoStatus, NodeSold, NodePending,
          NodeInactive, NodeNotActive}

\* The nodes of the pages the enrichment phase is started from.
EnrichNodes == {NodeActive, NodeNoStatus, NodeSold}

\* Sequences over S of length at most n.
SeqsUpTo(S, n) == UNION {[1..k -> S] : k \in 0..n}

\* Raw text of ".mrp-listing-info-container" on a detail page.
RawDetailTexts ==
  { <<"\n"," "," ">>,
    <<" ","3"," ","b","e","d","\n","\n","h","o","m","e"," ">> }

RECURSIVE NodesServed(_)
NodesServed(rs) ==
  IF rs = << >> THEN 0
  ELSE (IF Head(rs).kind = "html" THEN Len(Head(rs).nodes) ELSE 0)
       + NodesServed(Tail(rs))

(***************************************************************************)
(* extractListingInfo: the fields of the summary the pipeline reads.       *)
(***************************************************************************)
extractListingInfo(node) ==
  [listingId |-> node.listingId,
   shareUrl  |-> node.shareUrl,
   status    |-> Trim(node.statusText)]

MapSeq(s, Op(_)) == [i \in 1..Len(s) |-> Op(s[i])]

(***************************************************************************)
(* The status test of getLinksFromPage.                                    *)
(***************************************************************************)
IsInactiveStatusCaseSensitive(status) ==
  \/ Includes(status, <<"n","o","t"," ","a","c","t","i","v","e">>)
  \/ Includes(status, <<"i","n","a","c","t","i","v","e">>)
  \/ Includes(status, <<"s","o","l","d">>)
  \/ Includes(status, <<"p","e","n","d","i","n","g">>)

IsInactiveStatus(status) ==
  \/ Includes(ToLowerCase(status), <<"n","o","t"," ","a","c","t","i","v","e">>)
  \/ Includes(ToLowerCase(status), <<"i","n","a","c","t","i","v","e">>)
  \/ Includes(ToLowerCase(status), <<"s","o","l","d">>)
  \/ Includes(ToLowerCase(status), <<"p","e","n","d","i","n","g">>)

(***************************************************************************)
(* getLinksFromPage(url), given the settled axios.get: a response of kind  *)
(* "html" or a rejection/parse exception of kind "error".                  *)
(***************************************************************************)
getLinksFromPage(resp) ==
  IF resp.kind = "error"
    THEN [listings |-> << >>, foundInactive |-> FALSE]
    ELSE LET listings == MapSeq(resp.nodes, extractListingInfo)
         IN  IF Len(listings) = 0
               THEN [listings |-> << >>, foundInactive |-> TRUE]
               ELSE [listings |-> listings,
                     foundInactive |->
                       \E i \in 1..Len(listings) :
                          IsInactiveStatus(listings[i].status)]

(***************************************************************************)
(* The while loop of scrapeAllListingsWithDetails.                         *)
(***************************************************************************)
LoopConditionNoCap(found, page, cap) == ~found

\* The mutant stops one page short of the cap.
LoopConditionBelowCap(found, page, cap) == ~found /\ page < cap

LoopCondition(found, page, cap) == ~found /\ page <= cap

ConcatReversed(acc, listings) == listings \o acc

Concat(acc, listings) == acc \o listings

\* The loop body from the settled getLinksFromPage up to the politeness
\* delay: either "break" or the new locals.
LoopBodyNoBreak(acc, result) ==
  [break |-> FALSE,
   allListings |-> Concat(acc, result.listings),
   foundInactive |-> result.foundInactive]

LoopBodySkipEmpty(acc, result) ==
  [break |-> FALSE,
   allListings |-> Concat(acc, result.listings),
   foundInactive |-> IF Len(result.listings) = 0 THEN FALSE
                     ELSE result.foundInactive]

LoopBody(acc, result) ==
  IF Len(result.listings) = 0
    THEN [break |-> TRUE, allListings |-> acc, foundInactive |-> FALSE]
    ELSE [break |-> FALSE,
          allListings |-> Concat(acc, result.listings),
          foundInactive |-> result.foundInactive]

(***************************************************************************)
(* Detail enrichment.                                                      *)
(***************************************************************************)
\* indexOf: zero-based position of the first occurrence of sub, else -1.
IndexOf(s, sub) ==
  IF Includes(s, sub)
    THEN CHOOSE i \in 0..(Len(s) - Len(sub)) :
           /\ SubSeq(s, i + 1, i + Len(sub)) = sub
           /\ \A j \in 0..(i - 1) : SubSeq(s, j + 1, j + Len(sub)) # sub
    ELSE -1

\* substring(0, n): a negative n counts as 0.
Substring0(s, n) ==
  SubSeq(s, 1, IF n < 0 THEN 0 ELSE IF n > Len(s) THEN Len(s) ELSE n)

DocumentsMarker ==
  <<"D","o","c","u","m","e","n","t","s"," ","&"," ","L","i","n","k","s",":">>
GeneralInfoMarker ==
  <<"G","e","n","e","r","a","l"," ","I","n","f","o",":">>

extractDescription(text) ==
  LET descEnd == IndexOf(text, DocumentsMarker)
  IN  Trim(Substring0(text,
             IF descEnd > 0 THEN descEnd ELSE IndexOf(text, GeneralInfoMarker)))

(***************************************************************************)
(* The detail parser: one extractor per field of the detail text.          *)
(***************************************************************************)
YearBuiltLabel == <<"Y","e","a","r"," ","b","u","i","l","t",":">>
ParkingLabel == <<"P","a","r","k","i","n","g",":">>
HeatingLabel == <<"H","e","a","t","i","n","g",":">>
FeaturesLabel == <<"F","e","a","t","u","r","e","s"," ","I","n","c","l","u","d","e","d",":">>
ConstructionLabel == <<"C","o","n","s","t","r","u","c","t","i","o","n",":">>
RoomInformationLabel == <<"R","o","o","m"," ","I","n","f","o","r","m","a","t","i","o","n",":">>
BathroomsLabel == <<"B","a","t","h","r","o","o","m","s",":">>
TaxesLabel == <<"T","a","x","e","s",":">>
LotAreaLabel == <<"L","o","t"," ","A","r","e","a",":">>
SqLabel == <<"s","q",".">>
FtLabel == <<"f","t",".">>
M2Label == <<"m","2">>

\* The match of /Year built:\s*(\d{4})/ that starts at p, or null.
YearBuiltMatchAt(text, p) ==
  LET q == RunEnd(text, p + Len(YearBuiltLabel), "space")
  IN  IF /\ LiteralAt(text, p, YearBuiltLabel)
         /\ q + 3 <= Len(text)
         /\ \A k \in 0..3 : IsDigit(text[q + k])
        THEN Matched(p, <<SubSeq(text, q, q + 3)>>)
        ELSE Null

\* text.match(/Year built:\s*(\d{4})/)
MatchYearBuilt(text) ==
  Leftmost({YearBuiltMatchAt(text, p) : p \in 1..Len(text)} \ {Null})

\* The mutant reads match[1] without asking whether there was a match.
extractYearBuiltUnguarded(text) ==
  LET match == MatchYearBuilt(text)
      g == Group(match, 1)
  IN  IF g = Raised THEN Raised ELSE Returned(ParseInt(g.value))

extractYearBuilt(text) ==
  LET match == MatchYearBuilt(text)
  IN  IF match # Null THEN Returned(ParseInt(Group(match, 1).value))
                      ELSE Returned(Null)

\* The match of /<label>([^.]+)/ that starts at p, or null.
LabelledMatchAt(text, label, p) ==
  LET q == p + Len(label)
  IN  IF LiteralAt(text, p, label) /\ q <= Len(text) /\ text[q] # "."
        THEN Matched(p, <<SubSeq(text, q, RunEnd(text, q, "notDot") - 1)>>)
        ELSE Null

\* text.match(/<label>([^.]+)/)
MatchLabelled(text, label) ==
  Leftmost({LabelledMatchAt(text, label, p) : p \in 1..Len(text)} \ {Null})

\* match[1].trim().split(",").map(x => x.trim())
TrimmedList(capture) == TrimEach(SplitOnChar(Trim(capture), ","))

extractParking(text) ==
  LET match == MatchLabelled(text, ParkingLabel)
  IN  IF match # Null THEN Returned(TrimmedList(Group(match, 1).value))
                      ELSE Returned(<< >>)

extractHeating(text) ==
  LET match == MatchLabelled(text, HeatingLabel)
  IN  IF match # Null THEN Returned(TrimmedList(Group(match, 1).value))
                      ELSE Returned(<< >>)

extractAmenities(text) ==
  LET match == MatchLabelled(text, FeaturesLabel)
  IN  IF match # Null THEN Returned(TrimmedList(Group(match, 1).value))
                      ELSE Returned(<< >>)

extractConstruction(text) ==
  LET match == MatchLabelled(text, ConstructionLabel)
  IN  IF match # Null THEN Returned(Trim(Group(match, 1).value))
                      ELSE Returned(Null)

\* The match of /Room Information:(.+?)(?=Bathrooms:)/s that starts at p:
\* the shortest non-empty text up to a following "Bathrooms:".
RoomSectionEnd(text, p, ends) ==
  IF ends = {} THEN Null
  ELSE Matched(p, <<SubSeq(text, p + Len(RoomInformationLabel),
                           Least(ends) - 1)>>)

RoomSectionMatchAt(text, p) ==
  IF LiteralAt(text, p, RoomInformationLabel)
    THEN RoomSectionEnd(text, p,
           {b \in (p + Len(RoomInformationLabel) + 1)..Len(text) :
              LiteralAt(text, b, BathroomsLabel)})
    ELSE Null

\* text.match(/Room Information:(.+?)(?=Bathrooms:)/s)
MatchRoomSection(text) ==
  Leftmost({RoomSectionMatchAt(text, p) : p \in 1..Len(text)} \ {Null})

\* The part ([\d'\"×]+)\s*×\s*([\d'\"]+) of the room pattern with its first
\* group taking g characters from position p.
RoomDimsOK(line, p, g) ==
  LET q == RunEnd(line, p + g, "space")
      r == RunEnd(line, q + 1, "space")
  IN  /\ g >= 1
      /\ p + g <= RunEnd(line, p, "dimTimes")
      /\ q <= Len(line) /\ line[q] = TimesSign
      /\ r <= Len(line) /\ InClass(line[r], "dim")

\* The lengths the greedy first dimension group can take at position p.
RoomDimLengths(line, p) ==
  {g \in 1..(RunEnd(line, p, "dimTimes") - p) : RoomDimsOK(line, p, g)}

\* The choices <<c, d, e>> of (\w+\s*\w*) at position p that let \s+ and
\* the dimensions follow.
RoomTypeChoices(line, p) ==
  UNION { UNION { { <<c, d, e>> :
                      e \in {k \in 0..(RunEnd(line, p + c + d, "word")
                                         - (p + c + d)) :
                               LET f == p + c + d + k
                               IN  /\ RunEnd(line, f, "space") > f
                                   /\ RoomDimLengths(line,
                                         RunEnd(line, f, "space")) # {}} } :
                  d \in 0..(RunEnd(line, p + c, "space") - (p + c)) } :
          c \in 1..(RunEnd(line, p, "word") - p) }

\* Greedy quantifiers give up characters from the last one backwards.
LexGreater(a, b) ==
  \/ a[1] > b[1]
  \/ a[1] = b[1] /\ a[2] > b[2]
  \/ a[1] = b[1] /\ a[2] = b[2] /\ a[3] >= b[3]

\* The match of the room pattern that starts at p, built step by step: the
\* groups, given the floor at p, the type in t..f-1 and the first dimension
\* of g characters at a.
RoomGroups(line, p, t, f, a, g) ==
  LET w == RunEnd(line, RunEnd(line, a + g, "space") + 1, "space")
  IN  Matched(p, << SubSeq(line, p, RunEnd(line, p, "word") - 1),
                    SubSeq(line, t, f - 1),
                    SubSeq(line, a, a + g - 1),
                    SubSeq(line, w, RunEnd(line, w, "dim") - 1) >>)

\* [\d'\"×]+ is greedy: the longest first dimension that lets the rest match.
RoomMatchDims(line, p, t, f, a) ==
  RoomGroups(line, p, t, f, a, Greatest(RoomDimLengths(line, a)))

RoomMatchTypeEnd(line, p, t, f) ==
  RoomMatchDims(line, p, t, f, RunEnd(line, f, "space"))

\* The choice the backtracking search finds first.
BestChoice(S) == CHOOSE x \in S : \A y \in S : LexGreater(x, y)

RoomMatchType(line, p, t, S) ==
  IF S = {} THEN Null
  ELSE RoomMatchTypeEnd(line, p, t, t + BestChoice(S)[1] + BestChoice(S)[2]
                                      + BestChoice(S)[3])

\* (\w+)\s+ : the floor is the rest of the word at p, followed by white space.
RoomMatchFloor(line, p, e, t) ==
  IF t > e THEN RoomMatchType(line, p, t, RoomTypeChoices(line, t)) ELSE Null

RoomMatchFloorEnd(line, p, e) ==
  RoomMatchFloor(line, p, e, RunEnd(line, e, "space"))

RoomMatchAt(line, p) ==
  IF IsWord(line[p]) THEN RoomMatchFloorEnd(line, p, RunEnd(line, p, "word"))
                     ELSE Null

\* line.match(/(\w+)\s+(\w+\s*\w*)\s+([\d'\"×]+)\s*×\s*([\d'\"]+)/): the
\* match at the leftmost position that has one.
MatchRoomLine(line) ==
  Leftmost({RoomMatchAt(line, p) : p \in 1..Len(line)} \ {Null})

\* utils.js
parseDimensions(dimStr) ==
  LET parts == TrimEach(SplitOnChar(dimStr, TimesSign))
  IN  [length |-> PartOr(parts, 0, << >>),
       width  |-> PartOr(parts, 1, << >>)]

\* The object pushed for a matching line in ogbot.js and bot.js.
RoomOfBot(roomMatch) ==
  [floor |-> Group(roomMatch, 1).value,
   type  |-> Group(roomMatch, 2).value,
   dimensions |-> [length |-> Group(roomMatch, 3).value,
                   width  |-> Group(roomMatch, 4).value]]

\* The object pushed for a matching line in parsers.js.
RoomOfParsers(roomMatch) ==
  [floor |-> Group(roomMatch, 1).value,
   type  |-> Group(roomMatch, 2).value,
   dimensions |->
     parseDimensions(Group(roomMatch, 3).value \o <<" ", TimesSign, " ">>
                       \o Group(roomMatch, 4).value)]

\* The mutant leaves the loop at the first line that does not match.
RECURSIVE RoomsOfLinesUntilMismatch(_, _)
RoomsOfLinesUntilMismatch(roomLines, variant) ==
  IF roomLines = << >> THEN << >>
  ELSE LET roomMatch == MatchRoomLine(Head(roomLines))
       IN  IF roomMatch # Null
             THEN <<IF variant = "parsers" THEN RoomOfParsers(roomMatch)
                                           ELSE RoomOfBot(roomMatch)>>
                  \o RoomsOfLinesUntilMismatch(Tail(roomLines), variant)
             ELSE << >>

\* for (const line of roomLines) { if (roomMatch) rooms.push(...) }
RECURSIVE RoomsOfLines(_, _)
RoomsOfLines(roomLines, variant) ==
  IF roomLines = << >> THEN << >>
  ELSE LET roomMatch == MatchRoomLine(Head(roomLines))
           rest == RoomsOfLines(Tail(roomLines), variant)
       IN  IF roomMatch # Null
             THEN <<IF variant = "parsers" THEN RoomOfParsers(roomMatch)
                                           ELSE RoomOfBot(roomMatch)>> \o rest
             ELSE rest

extractRoomsOf(text, variant) ==
  LET roomSection == MatchRoomSection(text)
  IN  IF roomSection # Null
        THEN Returned(RoomsOfLines(
                      SplitOnChar(Group(roomSection, 1).value, "\n"), variant))
        ELSE Returned(<< >>)

extractRooms(text) == extractRoomsOf(text, "bot")

\* The match of the taxes pattern whose "Taxes:" stands at p, built step by
\* step: a is where the amount starts, e where it ends, y where the year
\* starts (0 when no "/" follows the amount).
TaxesMatchYear(text, p, a, e, y) ==
  IF /\ a <= Len(text) /\ InClass(text[a], "digitComma")
     /\ y > 0 /\ y + 3 <= Len(text)
     /\ \A k \in 0..3 : IsDigit(text[y + k])
    THEN Matched(p, <<SubSeq(text, a, e - 1), SubSeq(text, y, y + 3)>>)
    ELSE Null

\* \s*\/\s*
TaxesYearAt(text, e) ==
  LET s == RunEnd(text, e, "space")
  IN  IF s <= Len(text) /\ text[s] = "/"
        THEN RunEnd(text, s + 1, "space") ELSE 0

TaxesMatchAmountEnd(text, p, a, e) ==
  TaxesMatchYear(text, p, a, e, TaxesYearAt(text, e))

\* [\d,]+\.?\d*
TaxesAmountEnd(text, a) ==
  LET r == RunEnd(text, a, "digitComma")
  IN  IF r <= Len(text) /\ text[r] = "."
        THEN RunEnd(text, r + 1, "digit") ELSE r

TaxesMatchAmount(text, p, a) ==
  TaxesMatchAmountEnd(text, p, a, TaxesAmountEnd(text, a))

\* Taxes:\s*\$?
TaxesAmountAt(text, p) ==
  LET q == RunEnd(text, p + Len(TaxesLabel), "space")
  IN  IF q <= Len(text) /\ text[q] = "$" THEN q + 1 ELSE q

TaxesMatchAt(text, p) ==
  IF LiteralAt(text, p, TaxesLabel)
    THEN TaxesMatchAmount(text, p, TaxesAmountAt(text, p))
    ELSE Null

\* text.match(/Taxes:\s*\$?([\d,]+\.?\d*)\s*\/\s*(\d{4})/): the match at
\* the leftmost position that has one.
MatchTaxes(text) ==
  Leftmost({TaxesMatchAt(text, p) : p \in 1..Len(text)} \ {Null})

extractTaxes(text) ==
  LET match == MatchTaxes(text)
  IN  IF match # Null
        THEN Returned([amount |-> ParseFloat(StripCommas(Group(match, 1).value)),
                     year   |-> ParseInt(Group(match, 2).value)])
        ELSE Returned(Null)

\* The match of /Lot Area:\s*([\d,]+)\s*sq\.\s*ft\./ that starts at p, or
\* null.
LotAreaMatchAt(text, p) ==
  LET areaAt == RunEnd(text, p + Len(LotAreaLabel), "space")
      areaEnd == RunEnd(text, areaAt, "digitComma")
      sqAt == RunEnd(text, areaEnd, "space")
      ftAt == RunEnd(text, sqAt + Len(SqLabel), "space")
  IN  IF /\ LiteralAt(text, p, LotAreaLabel)
         /\ areaEnd > areaAt
         /\ LiteralAt(text, sqAt, SqLabel)
         /\ LiteralAt(text, ftAt, FtLabel)
        THEN Matched(p, <<SubSeq(text, areaAt, areaEnd - 1)>>)
        ELSE Null

\* text.match(/Lot Area:\s*([\d,]+)\s*sq\.\s*ft\./)
MatchLotArea(text) ==
  Leftmost({LotAreaMatchAt(text, p) : p \in 1..Len(text)} \ {Null})

\* \d+\.?\d* from a digit at p: the position after it.
NumberEnd(text, p, r) ==
  IF r <= Len(text) /\ text[r] = "." THEN RunEnd(text, r + 1, "digit") ELSE r

SquareMetresEnd(text, p, e) ==
  IF LiteralAt(text, RunEnd(text, e, "space"), M2Label)
    THEN Matched(p, <<SubSeq(text, p, e - 1)>>)
    ELSE Null

\* The match of /(\d+\.?\d*)\s*m2/ that starts at p, or null.
SquareMetresMatchAt(text, p) ==
  IF IsDigit(text[p])
    THEN SquareMetresEnd(text, p,
           NumberEnd(text, p, RunEnd(text, p, "digit")))
    ELSE Null

\* text.match(/(\d+\.?\d*)\s*m2/)
MatchSquareMetres(text) ==
  Leftmost({SquareMetresMatchAt(text, p) : p \in 1..Len(text)} \ {Null})

extractLotInfo(text) ==
  LET lotAreaMatch == MatchLotArea(text)
  IN  Returned([area |->
         IF lotAreaMatch # Null
           THEN [sqft |-> ParseInt(StripCommas(Group(lotAreaMatch, 1).value)),
                 sqm  |-> ParseInt(GroupOr(MatchSquareMetres(text), 1,
                                           <<"0">>))]
           ELSE Null])

\* The object parseDetailedInfo builds from what the extractors returned; a
\* throw in any extractor leaves the function before the object exists.
FeaturesOf(yearBuilt, parking, heating, amenities, construction) ==
  IF \/ yearBuilt = Raised \/ parking = Raised \/ heating = Raised
     \/ amenities = Raised \/ construction = Raised
    THEN Raised
    ELSE Returned([yearBuilt    |-> yearBuilt.value,
                   parking      |-> parking.value,
                   heating      |-> heating.value,
                   amenities    |-> amenities.value,
                   construction |-> construction.value])

DetailedInfoOf(description, features, rooms, taxes, lotInfo) ==
  IF \/ features = Raised \/ rooms = Raised
     \/ taxes = Raised \/ lotInfo = Raised
    THEN Raised
    ELSE [description |-> description,
          features |-> features.value,
          rooms    |-> rooms.value,
          taxes    |-> taxes.value,
          lotInfo  |-> lotInfo.value]

parseDetailedInfoInverted(detailedInfo) ==
  IF detailedInfo # << >>
    THEN Null
    ELSE [description |-> extractDescription(detailedInfo)]

parseDetailedInfo(detailedInfo) ==
  IF detailedInfo = << >>
    THEN Null
    ELSE DetailedInfoOf(extractDescription(detailedInfo),
                        FeaturesOf(extractYearBuilt(detailedInfo),
                                   extractParking(detailedInfo),
                                   extractHeating(detailedInfo),
                                   extractAmenities(detailedInfo),
                                   extractConstruction(detailedInfo)),
                        extractRooms(detailedInfo),
                        extractTaxes(detailedInfo),
                        extractLotInfo(detailedInfo))

\* parseDetailedInfo of parsers.js: the rooms go through parseDimensions.
parseDetailedInfoParsers(detailedInfo) ==
  IF detailedInfo = << >>
    THEN Null
    ELSE DetailedInfoOf(extractDescription(detailedInfo),
                        FeaturesOf(extractYearBuilt(detailedInfo),
                                   extractParking(detailedInfo),
                                   extractHeating(detailedInfo),
                                   extractAmenities(detailedInfo),
                                   extractConstruction(detailedInfo)),
                        extractRoomsOf(detailedInfo, "parsers"),
                        extractTaxes(detailedInfo),
                        extractLotInfo(detailedInfo))

\* The catch of axiosWithRetry after the failure of attempt i (zero-based).
axiosWithRetryOnErrorOffByOne(i, retries) ==
  IF i = retries THEN "throw" ELSE "retry"

axiosWithRetryOnError(i, retries) ==
  IF i = retries - 1 THEN "throw" ELSE "retry"

\* scrapeListingDetails, given how axiosWithRetry settled (timeout: 10000
\* turns an origin that never answers into a failed attempt).
scrapeListingDetailsDefaultInfo(settled) ==
  IF settled.kind = "throw"
    THEN [description |-> << >>]
    ELSE parseDetailedInfo(cleanText(settled.raw))

\* The mutant hands the text of the page to the parser as it is.
scrapeListingDetailsRawText(settled) ==
  IF settled.kind = "throw"
    THEN Null
    ELSE parseDetailedInfo(settled.raw)

scrapeListingDetails(settled) ==
  IF settled.kind = "throw"
    THEN Null
    ELSE parseDetailedInfo(cleanText(settled.raw))

\* ScraperService.scrapeListingDetails, which parses with parsers.js.
scrapeListingDetailsParsers(settled) ==
  IF settled.kind = "throw"
    THEN Null
    ELSE parseDetailedInfoParsers(cleanText(settled.raw))

\* { ...listing, detailedInfo }
EnrichedListing(listing, detailedInfo) ==
  [listingId    |-> listing.listingId,
   shareUrl     |-> listing.shareUrl,
   status       |-> listing.status,
   detailedInfo |-> detailedInfo]

\* Promise.all keeps the position of each promise in its result array.
SettleInCompletionOrder(arr, k, value) ==
  LET slot == CHOOSE j \in 1..Len(arr) :
                /\ arr[j] = Pending
                /\ \A h \in 1..(j - 1) : arr[h] # Pending
  IN  [arr EXCEPT ![slot] = value]

Settle(arr, k, value) == [arr EXCEPT ![k] = value]

IsKept(listing) == listing.detailedInfo # Null

FilterKeepAll(arr) == arr

FilterNonNull(arr) == SelectSeq(arr, IsKept)

(***************************************************************************)
(* State machine.                                                          *)
(***************************************************************************)
\* No stand-alone call of axiosWithRetry or of a helper is under way.
FetchIdle ==
  /\ fRetries = Retries
  /\ fDelay = 0
  /\ fI = 0
  /\ fPc = "idle"
  /\ fLog = << >>
  /\ fResult = NotCalled

FnIdle ==
  /\ fnInput = << >>
  /\ fnOutput = NotCalled

\* No run of scrapeAndUpdate is under way.
RunIdle ==
  /\ rPc = "idle"
  /\ rRun = 0
  /\ rFileName = << >>
  /\ rEvents = << >>

\* The sockets a run of the model connects.
Sockets == {"a", "b"}

\* The ChatService after its construction: no session, no client.
ChatIdle ==
  /\ sessions = {}
  /\ sessionObjs = << >>
  /\ timers = {}
  /\ timerCount = 0
  /\ sockets = [s \in Sockets |-> [state |-> "new", sessionId |-> 0]]
  /\ prompts = << >>
  /\ assistant = Null
  /\ cleanups = {}
  /\ threads = << >>
  /\ emits = << >>
  /\ calls = << >>

RestIdle == RunIdle /\ ChatIdle

\* No run of scrapeAllListingsWithDetails is under way.
PipeIdle ==
  /\ maxPages = 0
  /\ allListings = << >>
  /\ currentPage = 1
  /\ foundInactive = FALSE
  /\ pc = "idle"
  /\ pageReq = "none"
  /\ pageFetches = << >>
  /\ responses = << >>
  /\ tasks = << >>
  /\ detailedListings = << >>
  /\ dataset = << >>

Init ==
  /\ RestIdle
  /\ FetchIdle
  /\ FnIdle
  /\ maxPages \in 0..MaxPagesArg
  /\ allListings = << >>
  /\ currentPage = 1
  /\ foundInactive = FALSE
  /\ pc = "start"
  /\ pageReq = "none"
  /\ pageFetches = << >>
  /\ responses = << >>
  /\ tasks = << >>
  /\ detailedListings = << >>
  /\ dataset = << >>

\* Promise.all(allListings.map(async ...)): every callback runs up to its
\* first await, the first axios.get of axiosWithRetry; nothing limits how
\* many run at once.
LaunchedTasksCapped(acc) ==
  [k \in 1..(IF Len(acc) > 2 THEN 2 ELSE Len(acc)) |->
     [i |-> 0, st |-> "req", ok |-> FALSE, raw |-> << >>]]

LaunchedTasks(acc) ==
  [k \in 1..Len(acc) |->
     [i |-> 0, st |-> "req", ok |-> FALSE, raw |-> << >>]]

LaunchEnrichment(acc) ==
  /\ pc' = "enrich"
  /\ pageReq' = "none"
  /\ tasks' = LaunchedTasks(acc)
  /\ detailedListings' = [k \in 1..Len(acc) |-> Pending]
  /\ UNCHANGED pageFetches

\* Top of the while loop: request the page of the cursor, or leave the loop.
LoopTopEagerEnrich(found, page, acc) ==
  IF LoopCondition(found, page, maxPages)
    THEN /\ pc' = "await"
         /\ pageReq' = "sent"
         /\ pageFetches' = Append(pageFetches, page)
         /\ tasks' = LaunchedTasks(acc)
         /\ detailedListings' = [k \in 1..Len(acc) |-> Pending]
    ELSE LaunchEnrichment(acc)

LoopTop(found, page, acc) ==
  IF LoopCondition(found, page, maxPages)
    THEN /\ pc' = "await"
         /\ pageReq' = "sent"
         /\ pageFetches' = Append(pageFetches, page)
         /\ UNCHANGED <<tasks, detailedListings>>
    ELSE LaunchEnrichment(acc)

\* scrapeAllListingsWithDetails(baseUrl, maxPages) is called.
Call ==
  /\ pc = "start"
  /\ UNCHANGED auxVars
  /\ LoopTop(foundInactive, currentPage, allListings)
  /\ UNCHANGED <<maxPages, allListings, currentPage, foundInactive,
                 responses, dataset>>

\* The axios.get of getLinksFromPage settles and the loop body runs up to
\* its break or up to the politeness delay.
PageResponse ==
  /\ pc = "await"
  /\ UNCHANGED auxVars
  /\ pageReq = "sent"
  /\ \E resp \in {[kind |-> "error", nodes |-> << >>]} \cup
                 {[kind |-> "html", nodes |-> ns] :
                    ns \in SeqsUpTo(Nodes, MaxNodes - NodesServed(responses))} :
       LET body == LoopBody(allListings, getLinksFromPage(resp))
       IN  /\ responses' = Append(responses, resp)
           /\ IF body.break
                THEN /\ LaunchEnrichment(allListings)
                     /\ UNCHANGED <<allListings, foundInactive>>
                ELSE /\ allListings' = body.allListings
                     /\ foundInactive' = body.foundInactive
                     /\ pc' = "delay"
                     /\ pageReq' = "none"
                     /\ UNCHANGED <<pageFetches, tasks, detailedListings>>
  /\ UNCHANGED <<maxPages, currentPage, dataset>>

\* axios.get(url) of getLinksFromPage has no timeout: an origin that keeps
\* the connection open without answering leaves the promise unsettled.
PageNeverAnswers ==
  /\ pc = "await"
  /\ UNCHANGED auxVars
  /\ pageReq = "sent"
  /\ pageReq' = "hung"
  /\ UNCHANGED <<maxPages, allListings, currentPage, foundInactive, pc,
                 pageFetches, responses, tasks, detailedListings, dataset>>

\* The 1500 ms timer fires: currentPage++ and the loop condition again.
DelayDone ==
  /\ pc = "delay"
  /\ UNCHANGED auxVars
  /\ currentPage' = currentPage + 1
  /\ LoopTop(foundInactive, currentPage + 1, allListings)
  /\ UNCHANGED <<maxPages, allListings, foundInactive, responses, dataset>>

\* A detail request of task k succeeds with the page's info text.
DetailSuccess(k) ==
  /\ pc = "enrich"
  /\ UNCHANGED auxVars
  /\ tasks[k].st = "req"
  /\ \E raw \in RawDetailTexts :
       /\ tasks' = [tasks EXCEPT ![k].st = "done", ![k].ok = TRUE,
                                 ![k].raw = raw]
       /\ detailedListings' =
            Settle(detailedListings, k,
                   EnrichedListing(allListings[k],
                      scrapeListingDetails([kind |-> "data", raw |-> raw])))
  /\ UNCHANGED <<maxPages, allListings, currentPage, foundInactive, pc,
                 pageReq, pageFetches, responses, dataset>>

\* A detail request of task k fails (error status, reset, timeout).
DetailFailure(k) ==
  /\ pc = "enrich"
  /\ UNCHANGED auxVars
  /\ tasks[k].st = "req"
  /\ IF axiosWithRetryOnError(tasks[k].i, Retries) = "throw"
       THEN /\ tasks' = [tasks EXCEPT ![k].st = "done"]
            /\ detailedListings' =
                 Settle(detailedListings, k,
                        EnrichedListing(allListings[k],
                           scrapeListingDetails([kind |-> "throw",
                                                 raw |-> << >>])))
       ELSE /\ tasks' = [tasks EXCEPT ![k].st = "wait"]
            /\ UNCHANGED detailedListings
  /\ UNCHANGED <<maxPages, allListings, currentPage, foundInactive, pc,
                 pageReq, pageFetches, responses, dataset>>

\* The retry delay of task k is over: the next attempt is issued.
DetailRetry(k) ==
  /\ pc = "enrich"
  /\ UNCHANGED auxVars
  /\ tasks[k].st = "wait"
  /\ tasks' = [tasks EXCEPT ![k].st = "req", ![k].i = @ + 1]
  /\ UNCHANGED <<maxPages, allListings, currentPage, foundInactive, pc,
                 pageReq, pageFetches, responses, detailedListings, dataset>>

\* Promise.all resolves; the null records are filtered out and the
\* function returns.
Return ==
  /\ pc = "enrich"
  /\ UNCHANGED auxVars
  /\ \A k \in 1..Len(detailedListings) : detailedListings[k] # Pending
  /\ dataset' = FilterNonNull(detailedListings)
  /\ pc' = "returned"
  /\ UNCHANGED <<maxPages, allListings, currentPage, foundInactive, pageReq,
                 pageFetches, responses, tasks, detailedListings>>

CrawlNext ==
  \/ Call
  \/ PageResponse
  \/ PageNeverAnswers
  \/ DelayDone

EnrichNext ==
  \/ \E k \in 1..Len(tasks) : DetailSuccess(k)
  \/ \E k \in 1..Len(tasks) : DetailFailure(k)
  \/ \E k \in 1..Len(tasks) : DetailRetry(k)
  \/ Return

Next == CrawlNext \/ EnrichNext

\* The whole of scrapeAllListingsWithDetails.
Spec == Init /\ [][Next]_vars

\* The crawl phase: from the call to the launch of the enrichment tasks.
CrawlSpec == Init /\ [][CrawlNext]_vars

\* Every enabled step of the crawl and every answer of the origin eventually
\* happens; an origin that never answers is PageNeverAnswers.
FairCrawlSpec == CrawlSpec /\ WF_vars(CrawlNext)

\* The enrichment phase, from the states in which the crawl hands over: the
\* accumulator is any sequence of summaries (here gathered from one page
\* with maxPages = 1) and every task has issued its first request.
InitEnrich ==
  /\ RestIdle
  /\ FetchIdle
  /\ FnIdle
  /\ \E ns \in SeqsUpTo(EnrichNodes, MaxNodes) :
       LET resp == [kind |-> "html", nodes |-> ns]
           body == LoopBody(<< >>, getLinksFromPage(resp))
       IN  /\ maxPages = 1
           /\ allListings = body.allListings
           /\ currentPage = IF body.break THEN 1 ELSE 2
           /\ foundInactive = body.foundInactive
           /\ pc = "enrich"
           /\ pageReq = "none"
           /\ pageFetches = <<1>>
           /\ responses = <<resp>>
           /\ tasks = LaunchedTasks(body.allListings)
           /\ detailedListings = [k \in 1..Len(body.allListings) |-> Pending]
           /\ dataset = << >>

EnrichSpec == InitEnrich /\ [][EnrichNext]_vars


(***************************************************************************)
(* axiosWithRetry(url, retries, delay) on its own.  fLog records every     *)
(* axios.get issued ("req"), every rejection with its error ("fail") and   *)
(* every setTimeout(resolve, delay) awaited ("wait").                      *)
(***************************************************************************)
MaxRetriesArg == 3   \* retries is drawn from 0..MaxRetriesArg

\* Values of the delay argument (1000 is the default).
DelayArgs == {1000, 250}

\* Ways an axios.get can reject.
ErrorKinds == {"ETIMEDOUT", "ECONNRESET", "HTTP500"}

\* for (let i = 0; i < retries; i++)
RetryLoopCondition(i, retries) == i < retries

\* setTimeout(resolve, delay)
WaitMsGrowing(delay, i) == delay * (i + 1)

WaitMs(delay, i) == delay

FetchInit ==
  /\ RestIdle
  /\ PipeIdle
  /\ FnIdle
  /\ fRetries \in 0..MaxRetriesArg
  /\ fDelay \in DelayArgs
  /\ fI = 0
  /\ fPc = "start"
  /\ fLog = << >>
  /\ fResult = NotCalled

\* The loop condition with index i: the next axios.get, or the end of the
\* function body (the call resolves to undefined).
FetchLoopTop(i) ==
  IF RetryLoopCondition(i, fRetries)
    THEN /\ fPc' = "req"
         /\ fLog' = Append(fLog, [ev |-> "req", i |-> i])
         /\ UNCHANGED fResult
    ELSE /\ fPc' = "returned"
         /\ fResult' = Undefined
         /\ UNCHANGED fLog

FetchCall ==
  /\ fPc = "start"
  /\ FetchLoopTop(fI)
  /\ UNCHANGED <<fRetries, fDelay, fI, pipeVars, fnVars, restVars>>

\* The request in flight is answered: return await axios.get(...).
FetchSuccess ==
  /\ fPc = "req"
  /\ fPc' = "returned"
  /\ fResult' = [response |-> fI]
  /\ UNCHANGED <<fRetries, fDelay, fI, fLog, pipeVars, fnVars, restVars>>

\* The request in flight rejects with an error of some kind: the catch.
FetchFailure ==
  /\ fPc = "req"
  /\ \E kind \in ErrorKinds :
       LET err == [error |-> kind, attempt |-> fI]
       IN  IF axiosWithRetryOnError(fI, fRetries) = "throw"
             THEN /\ fPc' = "threw"
                  /\ fResult' = err
                  /\ fLog' = Append(fLog, [ev |-> "fail", i |-> fI,
                                           error |-> kind])
             ELSE /\ fPc' = "wait"
                  /\ fLog' = fLog \o
                       << [ev |-> "fail", i |-> fI, error |-> kind],
                          [ev |-> "wait", i |-> fI,
                           ms |-> WaitMs(fDelay, fI)] >>
                  /\ UNCHANGED fResult
  /\ UNCHANGED <<fRetries, fDelay, fI, pipeVars, fnVars, restVars>>

\* The timer fires: i++ and the loop condition again.
FetchRetry ==
  /\ fPc = "wait"
  /\ fI' = fI + 1
  /\ FetchLoopTop(fI + 1)
  /\ UNCHANGED <<fRetries, fDelay, pipeVars, fnVars, restVars>>

FetchNext ==
  \/ FetchCall
  \/ FetchSuccess
  \/ FetchFailure
  \/ FetchRetry

FetchSpec == FetchInit /\ [][FetchNext]_vars


(***************************************************************************)
(* Properties of axiosWithRetry (FetchSpec).                               *)
(***************************************************************************)
LogIndices(ev) == {j \in 1..Len(fLog) : fLog[j].ev = ev}

CountLog(ev) == Cardinality(LogIndices(ev))

MinOf(a, b) == IF a < b THEN a ELSE b

\* C11: with retries >= 1, a request is issued only after the previous one
\* failed, at most retries requests are issued, the call returns the
\* response of the first request that succeeds, and when all retries
\* requests fail it throws the error of the last one, whatever the kinds of
\* the errors.
C11_RetryBudget ==
  fRetries >= 1 =>
    /\ CountLog("req") <= fRetries
    /\ CountLog("req") <= CountLog("fail") + 1
    /\ fResult # Undefined
    /\ fPc = "returned" =>
         /\ CountLog("fail") = CountLog("req") - 1
         /\ fResult = [response |-> CountLog("req") - 1]
    /\ fPc = "threw" =>
         /\ CountLog("req") = fRetries
         /\ CountLog("fail") = fRetries
         /\ fLog[Len(fLog)].ev = "fail"
         /\ fResult = [error |-> fLog[Len(fLog)].error,
                       attempt |-> fRetries - 1]
    /\ fPc \in {"req", "wait"} => fResult = NotCalled

\* Two failures of different kinds, then the third request succeeds.
C11_Witness ==
  /\ fPc = "returned"
  /\ fRetries = 3
  /\ CountLog("fail") = 2
  /\ \E j, h \in LogIndices("fail") : fLog[j].error # fLog[h].error
  /\ fResult = [response |-> 2]

\* C12: every wait lasts delay, whatever the attempt; every request but the
\* first directly follows a wait that directly follows a failure; k failed
\* attempts out of retries give min(k, retries - 1) waits, so there is no
\* wait after a success or after the last failure.
C12_FixedBackoff ==
  fRetries >= 1 =>
    /\ \A j \in LogIndices("wait") : fLog[j].ms = fDelay
    /\ \A j \in LogIndices("req") :
         j > 1 => /\ j > 2
                  /\ fLog[j - 1].ev = "wait"
                  /\ fLog[j - 2].ev = "fail"
    /\ \A j \in LogIndices("wait") : fLog[j - 1].ev = "fail"
    /\ CountLog("wait") = MinOf(CountLog("fail"), fRetries - 1)

\* Three failures out of three with the non-default delay: two waits.
C12_Witness ==
  /\ fPc = "threw"
  /\ fRetries = 3
  /\ fDelay = 250
  /\ CountLog("fail") = 3
  /\ CountLog("wait") = 2

(***************************************************************************)
(* Properties of the crawl (CrawlSpec, FairCrawlSpec).                     *)
(***************************************************************************)
\* The nodes whose status says the listing is no longer for sale.
InactiveNodes == {NodeSold, NodePending, NodeInactive, NodeNotActive}

PageHasInactive(resp) ==
  /\ resp.kind = "html"
  /\ \E i \in 1..Len(resp.nodes) : resp.nodes[i] \in InactiveNodes

IsEmptyPage(resp) == resp.kind = "html" /\ Len(resp.nodes) = 0

LastResponse == responses[Len(responses)]

\* C1: the number of result-page requests issued during a crawl is at most
\* maxPages, whatever the origin answers.
C1_FetchesAtMostMaxPages == Len(pageFetches) <= maxPages

\* The page cap ends a crawl whose last page was all active.
C1_Witness ==
  /\ pc = "enrich"
  /\ maxPages = 2
  /\ Len(pageFetches) = 2
  /\ Len(responses) = 2
  /\ responses[2].kind = "html"
  /\ Len(responses[2].nodes) > 0
  /\ ~PageHasInactive(responses[2])

\* C2: whatever the origin does on a result-page request (listings, empty
\* page, error, never answering), the crawl loop eventually exits and the
\* enrichment starts.
C2_CrawlTerminates == <>(pc = "enrich")

\* C3: a page with at least one listing whose status is sold, pending,
\* inactive or not active has all its listings appended to the accumulator,
\* the active ones included, and no page after it is requested.
C3_InactiveBoundary ==
  \A p \in 1..Len(responses) :
    PageHasInactive(responses[p]) =>
      LET nodes == responses[p].nodes
          off   == Len(allListings) - Len(nodes)
      IN  /\ Len(pageFetches) = p
          /\ off >= 0
          /\ \A j \in 1..Len(nodes) :
               /\ allListings[off + j].listingId = nodes[j].listingId
               /\ allListings[off + j].shareUrl = nodes[j].shareUrl

\* Statuses [Active, Sold, Active] on page 1 with further pages allowed.
C3_Witness ==
  /\ pc = "enrich"
  /\ maxPages >= 2
  /\ Len(responses) = 1
  /\ responses[1].kind = "html"
  /\ responses[1].nodes = <<NodeActive, NodeSold, NodeActive>>
  /\ Len(allListings) = 3

\* C4: when page p has no listing node the crawl stops: the step that
\* handles the page leaves the accumulator as it was after page p-1 and
\* requests nothing, and page p+1 is never requested afterwards.
C4_EmptyPageStop ==
  /\ [](\A p \in 1..Len(responses) :
          IsEmptyPage(responses[p]) => Len(pageFetches) = p)
  /\ [][(responses' # responses /\ IsEmptyPage(LastResponse'))
          => /\ allListings' = allListings
             /\ pageFetches' = pageFetches]_vars

\* An empty page 2 after a page of listings, below the page cap.
C4_Witness ==
  /\ pc = "enrich"
  /\ maxPages = 3
  /\ Len(responses) = 2
  /\ IsEmptyPage(responses[2])
  /\ Len(allListings) >= 1
  /\ Len(pageFetches) = 2

\* C5: when the fetch or the parse of page p fails the crawl stops at once:
\* page p+1 is never requested, the accumulator keeps the listings of pages
\* 1..p-1, and the run goes on to the enrichment of exactly those listings.
C5_AbortWithPartial ==
  /\ [](\A p \in 1..Len(responses) :
          responses[p].kind = "error" => Len(pageFetches) = p)
  /\ [][(responses' # responses /\ LastResponse'.kind = "error")
          => /\ allListings' = allListings
             /\ pageFetches' = pageFetches
             /\ pc' = "enrich"
             /\ Len(tasks') = Len(allListings)
             /\ \A k \in 1..Len(tasks') : tasks'[k].st = "req"]_vars

\* Page 2 fails after a page of listings, below the page cap.
C5_Witness ==
  /\ pc = "enrich"
  /\ maxPages = 3
  /\ Len(responses) = 2
  /\ responses[2].kind = "error"
  /\ Len(allListings) >= 1
  /\ Len(tasks) = Len(allListings)

\* The listings of the pages answered so far, page after page, each page in
\* its on-page order.
RECURSIVE ListingsOfPages(_)
ListingsOfPages(rs) ==
  IF rs = << >> THEN << >>
  ELSE (IF Head(rs).kind = "html"
          THEN MapSeq(Head(rs).nodes, extractListingInfo)
          ELSE << >>)
       \o ListingsOfPages(Tail(rs))

\* C10: the accumulator is the concatenation, in increasing page number, of
\* the listings of the accepted pages, each in on-page order; nothing is
\* missing, repeated or moved.
C10_AccumulatorIsConcatenation == allListings = ListingsOfPages(responses)

\* Two accepted pages with different listings.
C10_Witness ==
  /\ pc = "enrich"
  /\ Len(responses) = 2
  /\ responses[1].kind = "html"
  /\ responses[1].nodes = <<NodeActive, NodeNoStatus>>
  /\ responses[2].kind = "html"
  /\ responses[2].nodes = <<NodeSold>>
  /\ Len(allListings) = 3

\* The requests issued for result page p.
RequestsForPage(p) ==
  Cardinality({j \in 1..Len(pageFetches) : pageFetches[j] = p})

\* C13: result pages are fetched through the Fetcher: a failing page
\* request is retried up to the attempt budget, so a page failure ends the
\* crawl only after Retries requests for that page.
C13_PageFetchRetried ==
  \A p \in 1..Len(responses) :
    responses[p].kind = "error" => RequestsForPage(p) = Retries

\* C14: the crawl is sequential and comes before the enrichment: at most
\* one page request is in flight, pages are requested in the order 1, 2, ...
\* each after the answer to the previous one was handled, and no detail
\* request exists before the loop has exited.
C14_SequentialCrawl ==
  /\ Len(pageFetches) - Len(responses) \in {0, 1}
  /\ (Len(pageFetches) - Len(responses) = 1) <=> (pc = "await")
  /\ \A j \in 1..Len(pageFetches) : pageFetches[j] = j
  /\ pc \in {"start", "await", "delay"} =>
       /\ tasks = << >>
       /\ detailedListings = << >>

\* The request for page 2 is in flight, page 1 is accumulated and no detail
\* task exists yet.
C14_Witness ==
  /\ pc = "await"
  /\ pageReq = "sent"
  /\ pageFetches = <<1, 2>>
  /\ Len(responses) = 1
  /\ Len(allListings) = 2
  /\ tasks = << >>

\* No listing id occurs twice on the page of an answer.
PageIdsDistinct(resp) ==
  \A i, j \in 1..Len(resp.nodes) :
    i # j => resp.nodes[i].listingId # resp.nodes[j].listingId

\* C25: listing ids are unique within a run: no two records of the
\* accumulator have the same listingId, whatever the origin returns, also
\* when it serves the same listings for several page numbers (each page is
\* taken to be free of repeats in itself).
C25_UniqueListingIds ==
  (\A p \in 1..Len(responses) : PageIdsDistinct(responses[p])) =>
    \A i, j \in 1..Len(allListings) :
      i # j => allListings[i].listingId # allListings[j].listingId

\* C27: the politeness delay is taken only between two page fetches: while
\* the delay runs the crawl is going to fetch the next page, so the page
\* just handled had no inactive listing and was not the maxPages-th.
C27_DelayOnlyBetweenFetches ==
  pc = "delay" => (~foundInactive /\ currentPage < maxPages)

\* Page p was answered with at least one listing, none of them inactive,
\* below the page cap.
PageContinues(p) ==
  /\ p >= 1
  /\ p <= Len(responses)
  /\ responses[p].kind = "html"
  /\ Len(responses[p].nodes) > 0
  /\ ~PageHasInactive(responses[p])
  /\ p < maxPages

\* C28: the pages fetched are 1, 2, ..., k in that order, each once; page
\* p + 1 is fetched if and only if page p was fetched successfully, had a
\* listing, had no inactive listing and p < maxPages; when the pages
\* 1..maxPages are all non-empty and all active, exactly maxPages pages are
\* fetched and all their listings are accumulated.
C28_ContinueAndCap ==
  /\ \A j \in 1..Len(pageFetches) : pageFetches[j] = j
  /\ \A p \in 1..(Len(pageFetches) - 1) : PageContinues(p)
  /\ pc = "enrich" =>
       /\ Len(responses) = Len(pageFetches)
       /\ ~PageContinues(Len(pageFetches))
       /\ (maxPages > 0) => Len(pageFetches) >= 1
       /\ (\A p \in 1..Len(responses) :
             /\ responses[p].kind = "html"
             /\ Len(responses[p].nodes) > 0
             /\ ~PageHasInactive(responses[p])) =>
            /\ Len(pageFetches) = maxPages
            /\ allListings = ListingsOfPages(responses)

\* With maxPages = 2, two pages of active listings were fetched and the
\* crawl stopped at the cap with both pages accumulated.
C28_Witness ==
  /\ pc = "enrich"
  /\ maxPages = 2
  /\ pageFetches = <<1, 2>>
  /\ Len(responses) = 2
  /\ responses[1].kind = "html" /\ responses[1].nodes = <<NodeActive>>
  /\ responses[2].kind = "html" /\ responses[2].nodes = <<NodeNoStatus>>
  /\ Len(allListings) = 2

(***************************************************************************)
(* Properties of the enrichment (EnrichSpec).                              *)
(***************************************************************************)
\* The summary fields of a record of the dataset.
Summary(rec) ==
  [listingId |-> rec.listingId, shareUrl |-> rec.shareUrl,
   status |-> rec.status]

RemoveAt(s, k) == SubSeq(s, 1, k - 1) \o SubSeq(s, k + 1, Len(s))

\* The detail request of task k was answered with a page.
FetchSucceeded(k) == tasks[k].ok

\* Every attempt of task k failed.
FetchFailed(k) == tasks[k].st = "done" /\ ~tasks[k].ok

\* The info text received by task k has a character that is not whitespace.
HasInfoText(k) ==
  /\ tasks[k].ok
  /\ \E i \in 1..Len(tasks[k].raw) : ~IsSpace(tasks[k].raw[i])

RECURSIVE IsSubsequence(_, _)
IsSubsequence(a, b) ==
  IF a = << >> THEN TRUE
  ELSE IF b = << >> THEN FALSE
  ELSE IF Head(a) = Head(b)
    THEN IsSubsequence(Tail(a), Tail(b))
    ELSE IsSubsequence(a, Tail(b))

\* C6 as stated: when the detail fetch of one listing fails on every attempt
\* and the detail fetches of all the others succeed, the dataset is exactly
\* the other listings, summary fields unchanged.
C6_IsolationWhenOthersFetched ==
  pc = "returned" =>
    \A k \in 1..Len(tasks) :
      (FetchFailed(k) /\ \A h \in 1..Len(tasks) : h # k => FetchSucceeded(h))
        => MapSeq(dataset, Summary) = RemoveAt(allListings, k)

\* C6 amended: when the detail fetch of one listing fails on every attempt
\* and every other detail fetch succeeds with a non-blank info text, the
\* dataset is exactly the other listings, in order, summary fields unchanged
\* and detailedInfo set, under every completion order.
C6_Isolation ==
  pc = "returned" =>
    \A k \in 1..Len(tasks) :
      (FetchFailed(k) /\ \A h \in 1..Len(tasks) : h # k => HasInfoText(h))
        => /\ MapSeq(dataset, Summary) = RemoveAt(allListings, k)
           /\ \A j \in 1..Len(dataset) : dataset[j].detailedInfo # Null

\* Three listings, the middle one failing three times, the last one
\* succeeding only at its third attempt.
C6_Witness ==
  /\ pc = "returned"
  /\ Len(allListings) = 3
  /\ FetchFailed(2) /\ tasks[2].i = Retries - 1
  /\ HasInfoText(1)
  /\ HasInfoText(3) /\ tasks[3].i = Retries - 1
  /\ Len(dataset) = 2

\* C7: every record of the returned dataset has a non-null detailedInfo.
C7_NoNullDetailedInfo ==
  pc = "returned" =>
    \A j \in 1..Len(dataset) : dataset[j].detailedInfo # Null

\* A run that dropped a failed record, dropped a blank one and kept one.
C7_Witness ==
  /\ pc = "returned"
  /\ Len(allListings) = 3
  /\ \E k \in 1..3 : FetchFailed(k)
  /\ \E k \in 1..3 : FetchSucceeded(k) /\ ~HasInfoText(k)
  /\ Len(dataset) = 1

\* C8 as stated: every accumulated listing whose detail page was fetched
\* successfully is in the dataset; records are missing only for fetches
\* that failed on every attempt.
C8_ExcludedOnlyWhenFetchFailed ==
  pc = "returned" =>
    /\ \A k \in 1..Len(tasks) :
         FetchSucceeded(k) =>
           \E j \in 1..Len(dataset) : Summary(dataset[j]) = allListings[k]
    /\ Len(dataset) = Cardinality({k \in 1..Len(tasks) : FetchSucceeded(k)})

\* C8 amended: every accumulated listing whose detail page was fetched
\* successfully with a non-blank info text is in the dataset; records are
\* missing only for fetches that failed on every attempt or whose info text
\* is blank.
C8_ExcludedOnlyWhenNoInfo ==
  pc = "returned" =>
    /\ \A k \in 1..Len(tasks) :
         HasInfoText(k) =>
           \E j \in 1..Len(dataset) :
              /\ Summary(dataset[j]) = allListings[k]
              /\ dataset[j].detailedInfo # Null
    /\ Len(dataset) = Cardinality({k \in 1..Len(tasks) : HasInfoText(k)})

\* A listing fetched at the third attempt is kept next to a blank one and a
\* failed one that are dropped.
C8_Witness ==
  /\ pc = "returned"
  /\ Len(allListings) = 3
  /\ HasInfoText(1) /\ tasks[1].i = Retries - 1
  /\ FetchSucceeded(2) /\ ~HasInfoText(2)
  /\ FetchFailed(3)
  /\ Len(dataset) = 1
  /\ Summary(dataset[1]) = allListings[1]

\* C9: the records of the dataset are in the order of the accumulator,
\* whatever order the detail fetches complete in.
C9_OrderPreserved ==
  pc = "returned" => IsSubsequence(MapSeq(dataset, Summary), allListings)

\* Two different survivors around a dropped record, the first one settling
\* after two retries and the last one at its first attempt.
C9_Witness ==
  /\ pc = "returned"
  /\ Len(allListings) = 3
  /\ allListings[1] # allListings[3]
  /\ HasInfoText(1) /\ tasks[1].i = Retries - 1
  /\ FetchFailed(2)
  /\ HasInfoText(3) /\ tasks[3].i = 0
  /\ Len(dataset) = 2

\* C15: one detail task runs for every accumulated listing, none held back,
\* and the function returns only when every task has settled, whether it
\* succeeded or failed.
C15_JointAwait ==
  /\ Len(tasks) = Len(allListings)
  /\ Len(detailedListings) = Len(allListings)
  /\ pc = "returned" =>
       \A k \in 1..Len(allListings) :
          /\ tasks[k].st = "done"
          /\ detailedListings[k] # Pending

\* Three tasks that needed three, one and two attempts have all settled.
C15_Witness ==
  /\ pc = "returned"
  /\ Len(allListings) = 3
  /\ tasks[1].st = "done" /\ tasks[1].i = 2
  /\ tasks[2].st = "done" /\ tasks[2].i = 0
  /\ tasks[3].st = "done" /\ tasks[3].i = 1

(***************************************************************************)
(* Address parsing (parseAddress).                                         *)
(***************************************************************************)
MaxTokens == 3

\* String.prototype.split(" "): the empty string gives one empty token.
RECURSIVE SplitOnSpace(_)
SplitOnSpace(s) ==
  IF \A i \in 1..Len(s) : s[i] # " "
    THEN <<s>>
    ELSE LET p == CHOOSE i \in 1..Len(s) :
                    /\ s[i] = " "
                    /\ \A j \in 1..(i - 1) : s[j] # " "
         IN  <<SubSeq(s, 1, p - 1)>> \o SplitOnSpace(SubSeq(s, p + 1, Len(s)))

\* Array.prototype.join(" ")
RECURSIVE JoinWithSpace(_)
JoinWithSpace(parts) ==
  IF parts = << >> THEN << >>
  ELSE IF Len(parts) = 1 THEN parts[1]
  ELSE parts[1] \o <<" ">> \o JoinWithSpace(Tail(parts))

\* /^[A-Z]\d[A-Z]\s?\d[A-Z]\d$/.test(part)
IsPostalCode(part) ==
  \/ /\ Len(part) = 6
     /\ IsUpper(part[1]) /\ IsDigit(part[2]) /\ IsUpper(part[3])
     /\ IsDigit(part[4]) /\ IsUpper(part[5]) /\ IsDigit(part[6])
  \/ /\ Len(part) = 7
     /\ IsUpper(part[1]) /\ IsDigit(part[2]) /\ IsUpper(part[3])
     /\ IsSpace(part[4])
     /\ IsDigit(part[5]) /\ IsUpper(part[6]) /\ IsDigit(part[7])

Burnaby == <<"B","u","r","n","a","b","y">>
Vancouver == <<"V","a","n","c","o","u","v","e","r">>
Richmond == <<"R","i","c","h","m","o","n","d">>
IsCity(part) == part = Burnaby \/ part = Vancouver \/ part = Richmond

\* parts.find(isPostalCode) || ""
FindPostalCode(parts) ==
  IF \E i \in 1..Len(parts) : IsPostalCode(parts[i])
    THEN parts[CHOOSE i \in 1..Len(parts) :
                 /\ IsPostalCode(parts[i])
                 /\ \A j \in 1..(i - 1) : ~IsPostalCode(parts[j])]
    ELSE << >>

\* parts.find(isCity) || ""
FindCity(parts) ==
  IF \E i \in 1..Len(parts) : IsCity(parts[i])
    THEN parts[CHOOSE i \in 1..Len(parts) :
                 /\ IsCity(parts[i])
                 /\ \A j \in 1..(i - 1) : ~IsCity(parts[j])]
    ELSE << >>

\* The mutant reports position 0 for a token that is not in the array.
IndexOfPartZeroWhenMissing(parts, x) ==
  IF \E i \in 1..Len(parts) : parts[i] = x
    THEN (CHOOSE i \in 1..Len(parts) :
            /\ parts[i] = x
            /\ \A j \in 1..(i - 1) : parts[j] # x) - 1
    ELSE 0

\* Array.prototype.indexOf: zero-based position of the first equal token,
\* else -1.
IndexOfPart(parts, x) ==
  IF \E i \in 1..Len(parts) : parts[i] = x
    THEN (CHOOSE i \in 1..Len(parts) :
            /\ parts[i] = x
            /\ \A j \in 1..(i - 1) : parts[j] # x) - 1
    ELSE -1

\* parts.slice(start) for start >= 0
Slice(parts, start) == SubSeq(parts, start + 1, Len(parts))

\* parts[i] with a zero-based index: undefined past the end.
PartAt(parts, i) == IF i < Len(parts) THEN parts[i + 1] ELSE Undefined

parseAddress(addressString) ==
  LET parts == SplitOnSpace(addressString)
      postalCode == FindPostalCode(parts)
  IN  [streetNumber |-> PartAt(parts, 0),
       streetName   |-> PartAt(parts, 1),
       streetType   |-> PartAt(parts, 2),
       city         |-> FindCity(parts),
       postalCode   |-> postalCode,
       neighborhood |->
         JoinWithSpace(Slice(parts, IndexOfPart(parts, postalCode) + 1))]

\* Tokens of the address lines the listing pages carry.
AddressTokens ==
  { <<"1","2","3">>, <<"M","a","i","n">>, <<"S","t">>, Burnaby,
    <<"V","5","H">>, <<"1","A","1">>, <<"V","5","H","1","A","1">>,
    <<"M","e","t","r","o","t","o","w","n">> }

\* "123 Main St Burnaby V5H 1A1 Metrotown"
ExampleAddress ==
  JoinWithSpace(<< <<"1","2","3">>, <<"M","a","i","n">>, <<"S","t">>, Burnaby,
                   <<"V","5","H">>, <<"1","A","1">>,
                   <<"M","e","t","r","o","t","o","w","n">> >>)

\* Address lines as cleanText hands them to parseAddress: tokens separated by
\* one space each, no space at either end; the empty line is one of them.
AddressLines ==
  {JoinWithSpace(ts) : ts \in SeqsUpTo(AddressTokens, MaxTokens)}
    \cup {ExampleAddress}

AddressInit ==
  /\ RestIdle
  /\ PipeIdle
  /\ FetchIdle
  /\ fnInput \in AddressLines
  /\ fnOutput = NotCalled

ParseAddressCall ==
  /\ fnOutput = NotCalled
  /\ fnOutput' = parseAddress(fnInput)
  /\ UNCHANGED <<fnInput, pipeVars, fetchVars, restVars>>

AddressNext == ParseAddressCall

AddressSpec == AddressInit /\ [][AddressNext]_vars

\* The line has a postal code of n characters at position p, between token
\* boundaries: Letter-Digit-Letter, an optional space, Digit-Letter-Digit.
PostalCodeAt(s, p, n) ==
  /\ p + n - 1 <= Len(s)
  /\ p = 1 \/ s[p - 1] = " "
  /\ p + n - 1 = Len(s) \/ s[p + n] = " "
  /\ IsUpper(s[p]) /\ IsDigit(s[p + 1]) /\ IsUpper(s[p + 2])
  /\ \/ n = 6 /\ IsDigit(s[p + 3]) /\ IsUpper(s[p + 4]) /\ IsDigit(s[p + 5])
     \/ /\ n = 7 /\ s[p + 3] = " "
        /\ IsDigit(s[p + 4]) /\ IsUpper(s[p + 5]) /\ IsDigit(s[p + 6])

HasPostalCode(s) ==
  \E p \in 1..Len(s), n \in {6, 7} : PostalCodeAt(s, p, n)

FirstPostalCode(s) ==
  CHOOSE pn \in (1..Len(s)) \X {6, 7} :
    /\ PostalCodeAt(s, pn[1], pn[2])
    /\ \A q \in 1..(pn[1] - 1), n \in {6, 7} : ~PostalCodeAt(s, q, n)

AddressParsed == fnOutput # NotCalled

\* C18: the example line is parsed into 123 / Main / St / Burnaby /
\* "V5H 1A1" / Metrotown, and for every line that holds a postal code
\* (with or without the inner space) postalCode is that code and
\* neighborhood is exactly the text after it.
C18_PostalCodeAndNeighborhood ==
  AddressParsed =>
    /\ fnInput = ExampleAddress =>
         fnOutput = [streetNumber |-> <<"1","2","3">>,
                     streetName   |-> <<"M","a","i","n">>,
                     streetType   |-> <<"S","t">>,
                     city         |-> Burnaby,
                     postalCode   |-> <<"V","5","H"," ","1","A","1">>,
                     neighborhood |-> <<"M","e","t","r","o","t","o","w","n">>]
    /\ HasPostalCode(fnInput) =>
         LET pn == FirstPostalCode(fnInput)
             p == pn[1]
             n == pn[2]
         IN  /\ fnOutput.postalCode = SubSeq(fnInput, p, p + n - 1)
             /\ fnOutput.neighborhood =
                  SubSeq(fnInput, p + n + 1, Len(fnInput))

NoPostalToken(s) ==
  \A i \in 1..Len(SplitOnSpace(s)) : ~IsPostalCode(SplitOnSpace(s)[i])

MaxPriceLen == 3

\* The mutant replaces the first "$" or "," only (a pattern without /g).
RECURSIVE StripFirstDollarComma(_)
StripFirstDollarComma(s) ==
  IF s = << >> THEN << >>
  ELSE IF Head(s) \in {"$", ","} THEN Tail(s)
  ELSE <<Head(s)>> \o StripFirstDollarComma(Tail(s))

\* replace(/[$,]/g, ""): every "$" and every "," is removed.
RECURSIVE StripDollarComma(_)
StripDollarComma(s) ==
  IF s = << >> THEN << >>
  ELSE IF Head(s) \in {"$", ","} THEN StripDollarComma(Tail(s))
  ELSE <<Head(s)>> \o StripDollarComma(Tail(s))

\* x || 0 for a number: NaN and 0 are falsy.
OrZero(x) == IF x = NaN \/ x = Num(0) THEN Num(0) ELSE x

\* utils.js
parsePrice(priceStr) == OrZero(ParseFloat(StripDollarComma(priceStr)))

\* The price object of extractListingInfo in ogbot.js and bot.js.
PriceOfBot(text) ==
  [amount    |-> ParseFloat(StripDollarComma(Trim(text))),
   formatted |-> Trim(text)]

\* The price object of extractListingInfo in parsers.js.
PriceOfParsers(text) ==
  [amount    |-> parsePrice(Trim(text)),
   formatted |-> Trim(text)]

PriceChars == {"$", ",", "0", "1", " "}

\* "$1,234,500"
ExamplePrice == <<"$","1",",","2","3","4",",","5","0","0">>

\* Texts of the price container of a listing node.
PriceTexts == SeqsUpTo(PriceChars, MaxPriceLen) \cup {ExamplePrice}

PriceInit ==
  /\ RestIdle
  /\ PipeIdle
  /\ FetchIdle
  /\ fnInput \in PriceTexts
  /\ fnOutput = NotCalled

PriceCallBot ==
  /\ fnOutput = NotCalled
  /\ fnOutput' = PriceOfBot(fnInput)
  /\ UNCHANGED <<fnInput, pipeVars, fetchVars, restVars>>

PriceCallParsers ==
  /\ fnOutput = NotCalled
  /\ fnOutput' = PriceOfParsers(fnInput)
  /\ UNCHANGED <<fnInput, pipeVars, fetchVars, restVars>>

PriceNext == PriceCallBot \/ PriceCallParsers

PriceSpec == PriceInit /\ [][PriceNext]_vars

\* s is one or more digits.
IsDigitGroup(s) == s # << >> /\ \A i \in 1..Len(s) : IsDigit(s[i])

\* s is digit groups separated by single commas.
RECURSIVE IsGroupList(_)
IsGroupList(s) ==
  \/ IsDigitGroup(s)
  \/ \E p \in 2..(Len(s) - 1) :
       /\ s[p] = ","
       /\ IsDigitGroup(SubSeq(s, 1, p - 1))
       /\ IsGroupList(SubSeq(s, p + 1, Len(s)))

\* An optional $ and digit groups separated by commas.
IsPriceText(s) ==
  \/ IsGroupList(s)
  \/ s # << >> /\ s[1] = "$" /\ IsGroupList(Tail(s))

\* The number written by the digits of s, whatever stands between them.
RECURSIVE NumberOfDigitsIn(_)
NumberOfDigitsIn(s) ==
  IF s = << >> THEN 0
  ELSE LET c == s[Len(s)]
           init == SubSeq(s, 1, Len(s) - 1)
       IN  IF IsDigit(c) THEN 10 * NumberOfDigitsIn(init) + DigitValue(c)
           ELSE NumberOfDigitsIn(init)

PriceParsed == fnOutput # NotCalled

\* C20: for a price text made of an optional $ and comma-separated digit
\* groups, price.amount is the number left after every $ and comma is
\* removed ("$1,234,500" gives 1234500) and price.formatted is the trimmed
\* text unchanged.
C20_PriceParsing ==
  (PriceParsed /\ IsPriceText(Trim(fnInput))) =>
    /\ fnOutput.amount = Num(NumberOfDigitsIn(fnInput))
    /\ fnOutput.formatted = Trim(fnInput)
    /\ fnInput = ExamplePrice =>
         /\ fnOutput.amount = Num(1234500)
         /\ fnOutput.formatted = ExamplePrice

\* "$1,234,500" has been parsed.
C20_Witness ==
  /\ PriceParsed
  /\ fnInput = ExamplePrice
  /\ IsPriceText(Trim(fnInput))
  /\ fnOutput.amount = Num(1234500)

\* C21: when the price container of a node holds no text (nothing is left
\* after trim), price.amount is NaN, never a number such as 0, and
\* price.formatted is the empty text.
C21_AbsentPriceIsNaN ==
  (PriceParsed /\ Trim(fnInput) = << >>) =>
    /\ fnOutput.amount = NaN
    /\ fnOutput.formatted = << >>

(***************************************************************************)
(* The detail parser on its own.                                           *)
(***************************************************************************)
MaxFragments == 2

\* Pieces of the text of ".mrp-listing-info-container": markers with
\* well-formed values, markers with malformed or missing values, and text
\* that carries no marker.
DetailFragments ==
  { <<"B","r","i","g","h","t"," ","c","o","n","d","o"," ">>,
    <<"G","e","n","e","r","a","l"," ","I","n","f","o",":"," ">>,
    <<"D","o","c","u","m","e","n","t","s"," ","&"," ","L","i","n","k","s",":"," ">>,
    <<"Y","e","a","r"," ","b","u","i","l","t",":"," ","1","9","9","5"," ">>,
    <<"Y","e","a","r"," ","b","u","i","l","t",":"," ","9","5"," ">>,
    <<"P","a","r","k","i","n","g",":"," ","G","a","r","a","g","e",","," ","C","a","r","p","o","r","t","."," ">>,
    <<"P","a","r","k","i","n","g",":","."," ">>,
    <<"C","o","n","s","t","r","u","c","t","i","o","n",":"," ","F","r","a","m","e","."," ">>,
    <<"R","o","o","m"," ","I","n","f","o","r","m","a","t","i","o","n",":"," ","M","a","i","n"," ","K","i","t","c","h","e","n"," ","1","2","'"," ","×"," ","1","0","'","\n","B","a","t","h","r","o","o","m","s",":"," ","2"," ">>,
    <<"R","o","o","m"," ","I","n","f","o","r","m","a","t","i","o","n",":"," ","M","a","i","n"," ","D","e","n"," ","9","×","8"," ">>,
    <<"T","a","x","e","s",":"," ","$","3",",","2","0","0",".","5","0"," ","/"," ","2","0","2","3"," ">>,
    <<"T","a","x","e","s",":"," ","$","3",",","2","0","0"," ">>,
    <<"L","o","t"," ","A","r","e","a",":"," ","4",",","0","0","0"," ","s","q","."," ","f","t","."," ">>,
    <<"3","7","2"," ","m","2"," ">> }

RECURSIVE Flatten(_)
Flatten(ss) == IF ss = << >> THEN << >> ELSE Head(ss) \o Flatten(Tail(ss))

\* The raw container texts, and what cleanText makes of them.
DetailTexts ==
  LET raw == {Flatten(fs) : fs \in SeqsUpTo(DetailFragments, MaxFragments)}
  IN  raw \cup {cleanText(t) : t \in raw}

DetailInit ==
  /\ RestIdle
  /\ PipeIdle
  /\ FetchIdle
  /\ fnInput \in DetailTexts
  /\ fnOutput = NotCalled

ParseDetailCallBot ==
  /\ fnOutput = NotCalled
  /\ fnOutput' = parseDetailedInfo(fnInput)
  /\ UNCHANGED <<fnInput, pipeVars, fetchVars, restVars>>

ParseDetailCallParsers ==
  /\ fnOutput = NotCalled
  /\ fnOutput' = parseDetailedInfoParsers(fnInput)
  /\ UNCHANGED <<fnInput, pipeVars, fetchVars, restVars>>

DetailNext == ParseDetailCallBot \/ ParseDetailCallParsers

DetailSpec == DetailInit /\ [][DetailNext]_vars

DetailParsed == fnOutput # NotCalled

DocumentsAt == IndexOf(fnInput, DocumentsMarker)
GeneralInfoAt == IndexOf(fnInput, GeneralInfoMarker)

\* The position of the marker that appears first in the text.
FirstMarkerAt ==
  IF DocumentsAt < 0 THEN GeneralInfoAt
  ELSE IF GeneralInfoAt < 0 THEN DocumentsAt
  ELSE IF DocumentsAt < GeneralInfoAt THEN DocumentsAt ELSE GeneralInfoAt

\* C23: the description is the text before whichever of "Documents &
\* Links:" and "General Info:" appears first; when both occur the cut is at
\* the smaller of their positions.
C23_CutAtFirstMarker ==
  (DetailParsed /\ fnInput # << >> /\ FirstMarkerAt >= 0) =>
    fnOutput.description = Trim(SubSeq(fnInput, 1, FirstMarkerAt))

(***************************************************************************)
(* The summary parser: extractDetailsFromSummary on the cleaned text of     *)
(* ".mrp-listing-summary-outer".  The details object holds a property only *)
(* when the code assigns it, so it is a function on the assigned names.    *)
(***************************************************************************)
MaxSummaryFragments == 2

MlsLabel == <<"M","L","S","®">>
NumLabel == <<"N","u","m",":">>
BedroomsLabel == <<"B","e","d","r","o","o","m","s",":">>
FloorAreaLabel == <<"F","l","o","o","r"," ","A","r","e","a",":">>

\* const details = {}
NoDetails == [name \in {} |-> Null]

\* The capture ([A-Z0-9]+) from position q on, for a match that starts at p.
MlsNumberAt(text, p, q, e) ==
  IF e > q THEN Matched(p, <<SubSeq(text, q, e - 1)>>) ELSE Null

MlsNumAt(text, p, n) ==
  IF LiteralAt(text, n, NumLabel)
    THEN MlsNumberAt(text, p, RunEnd(text, n + Len(NumLabel), "space"),
           RunEnd(text, RunEnd(text, n + Len(NumLabel), "space"),
                  "upperDigit"))
    ELSE Null

\* The match of /MLS®\s*Num:\s*([A-Z0-9]+)/ that starts at p, or null.
MlsMatchAt(text, p) ==
  IF LiteralAt(text, p, MlsLabel)
    THEN MlsNumAt(text, p, RunEnd(text, p + Len(MlsLabel), "space"))
    ELSE Null

\* summaryText.match(/MLS®\s*Num:\s*([A-Z0-9]+)/)
MatchMls(text) ==
  Leftmost({MlsMatchAt(text, p) : p \in 1..Len(text)} \ {Null})

CountDigitsAt(text, p, q, e) ==
  IF e > q THEN Matched(p, <<SubSeq(text, q, e - 1)>>) ELSE Null

\* The match of /<label>\s*(\d+)/ that starts at p, or null.
CountMatchAt(text, label, p) ==
  IF LiteralAt(text, p, label)
    THEN CountDigitsAt(text, p, RunEnd(text, p + Len(label), "space"),
           RunEnd(text, RunEnd(text, p + Len(label), "space"), "digit"))
    ELSE Null

\* summaryText.match(/Bedrooms:\s*(\d+)/) and the same for "Bathrooms:"
MatchCount(text, label) ==
  Leftmost({CountMatchAt(text, label, p) : p \in 1..Len(text)} \ {Null})

\* The match of /Floor Area:\s*([\d,]+)\s*sq\.\s*ft\./ that starts at p, or
\* null.
FloorAreaMatchAt(text, p) ==
  LET areaAt == RunEnd(text, p + Len(FloorAreaLabel), "space")
      areaEnd == RunEnd(text, areaAt, "digitComma")
      sqAt == RunEnd(text, areaEnd, "space")
      ftAt == RunEnd(text, sqAt + Len(SqLabel), "space")
  IN  IF /\ LiteralAt(text, p, FloorAreaLabel)
         /\ areaEnd > areaAt
         /\ LiteralAt(text, sqAt, SqLabel)
         /\ LiteralAt(text, ftAt, FtLabel)
        THEN Matched(p, <<SubSeq(text, areaAt, areaEnd - 1)>>)
        ELSE Null

\* summaryText.match(/Floor Area:\s*([\d,]+)\s*sq\.\s*ft\./)
MatchFloorArea(text) ==
  Leftmost({FloorAreaMatchAt(text, p) : p \in 1..Len(text)} \ {Null})

WholeMetresEnd(text, p, e) ==
  IF LiteralAt(text, RunEnd(text, e, "space"), M2Label)
    THEN Matched(p, <<SubSeq(text, p, e - 1)>>)
    ELSE Null

\* The match of /(\d+)\s*m2/ that starts at p, or null.
WholeMetresMatchAt(text, p) ==
  IF IsDigit(text[p])
    THEN WholeMetresEnd(text, p, RunEnd(text, p, "digit"))
    ELSE Null

\* summaryText.match(/(\d+)\s*m2/)
MatchWholeMetres(text) ==
  Leftmost({WholeMetresMatchAt(text, p) : p \in 1..Len(text)} \ {Null})

\* The floorArea object: sqm is given whether or not an m2 figure matched.
FloorAreaOf(floorAreaMatch, metresMatch) ==
  [sqft |-> ParseInt(StripCommas(floorAreaMatch.groups[1])),
   sqm  |-> ParseInt(GroupOr(metresMatch, 1, <<"0">>))]

extractDetailsFromSummary(summaryText) ==
  LET mlsMatch == MatchMls(summaryText)
      bedroomsMatch == MatchCount(summaryText, BedroomsLabel)
      bathroomsMatch == MatchCount(summaryText, BathroomsLabel)
      floorAreaMatch == MatchFloorArea(summaryText)
  IN  (IF mlsMatch # Null
         THEN "mlsNumber" :> mlsMatch.groups[1] ELSE NoDetails)
      @@ (IF bedroomsMatch # Null
            THEN "bedrooms" :> ParseInt(bedroomsMatch.groups[1])
            ELSE NoDetails)
      @@ (IF bathroomsMatch # Null
            THEN "bathrooms" :> ParseInt(bathroomsMatch.groups[1])
            ELSE NoDetails)
      @@ (IF floorAreaMatch # Null
            THEN "floorArea" :> FloorAreaOf(floorAreaMatch,
                                            MatchWholeMetres(summaryText))
            ELSE NoDetails)

\* Pieces of a listing summary: labelled values that are present, present
\* with the value zero, or present without a value, and an m2 figure.
SummaryFragments ==
  { <<"M","L","S","®"," ","N","u","m",":"," ","R","2"," ">>,
    <<"M","L","S","®"," ","N","u","m",":"," ">>,
    <<"B","e","d","r","o","o","m","s",":"," ","3"," ">>,
    <<"B","e","d","r","o","o","m","s",":"," ","0"," ">>,
    <<"B","a","t","h","r","o","o","m","s",":"," ","2"," ">>,
    <<"F","l","o","o","r"," ","A","r","e","a",":"," ","1",",","2","0","0"," ","s","q","."," ","f","t","."," ">>,
    <<"F","l","o","o","r"," ","A","r","e","a",":"," ","s","q","."," ","f","t","."," ">>,
    <<"1","1","1"," ","m","2"," ">> }

\* What cleanText hands to extractDetailsFromSummary.
SummaryTexts ==
  {cleanText(Flatten(fs)) :
     fs \in SeqsUpTo(SummaryFragments, MaxSummaryFragments)}

SummaryInit ==
  /\ RestIdle
  /\ PipeIdle
  /\ FetchIdle
  /\ fnInput \in SummaryTexts
  /\ fnOutput = NotCalled

SummaryCall ==
  /\ fnOutput = NotCalled
  /\ fnOutput' = extractDetailsFromSummary(fnInput)
  /\ UNCHANGED <<fnInput, pipeVars, fetchVars, restVars>>

SummaryNext == SummaryCall

SummarySpec == SummaryInit /\ [][SummaryNext]_vars

SummaryParsed == fnOutput # NotCalled

\* C22: a value whose pattern does not match the summary is left out of
\* the details and never reported as zero: mlsNumber, bedrooms, bathrooms
\* and floorArea are absent without their match, and a floor area without
\* an m2 figure carries no sqm value.
C22_UnmatchedOmitted ==
  SummaryParsed =>
    /\ MatchMls(fnInput) = Null => "mlsNumber" \notin DOMAIN fnOutput
    /\ MatchCount(fnInput, BedroomsLabel) = Null =>
         "bedrooms" \notin DOMAIN fnOutput
    /\ MatchCount(fnInput, BathroomsLabel) = Null =>
         "bathrooms" \notin DOMAIN fnOutput
    /\ MatchFloorArea(fnInput) = Null => "floorArea" \notin DOMAIN fnOutput
    /\ (MatchFloorArea(fnInput) # Null /\ MatchWholeMetres(fnInput) = Null) =>
         /\ "sqm" \notin DOMAIN fnOutput.floorArea
         /\ fnOutput.floorArea # [sqft |-> fnOutput.floorArea.sqft,
                                  sqm  |-> Num(0)]

(***************************************************************************)
(* The room extractor on line-oriented text.                               *)
(***************************************************************************)
MaxRoomLines == 2

\* "Main Living Room 20'6\" × 15'2\""
ExampleRoomLine ==
  <<"M","a","i","n"," ","L","i","v","i","n","g"," ","R","o","o","m"," ","2","0","'","6","\""," ","×"," ","1","5","'","2","\"">>
CompactRoomLine == <<"A","b","o","v","e"," ","B","e","d","r","o","o","m"," ","9","×","8">>
FeetRoomLine == <<"B","s","m","t"," ","D","e","n"," ","1","2","'"," ","×"," ","1","0","'">>
InchesRoomLine ==
  <<"M","a","i","n"," ","K","i","t","c","h","e","n"," ","1","1","'","4","\""," ","×"," ","9","'">>
HeaderLine == <<"F","l","o","o","r"," ","T","y","p","e"," ","D","i","m","e","n","s","i","o","n","s">>
EmptyLine == << >>
TotalLine == <<"T","o","t","a","l",":"," ","3"," ","r","o","o","m","s">>
NoWidthLine == <<"M","a","i","n"," ","K","i","t","c","h","e","n"," ","1","2","'">>

\* Lines of the room table of a detail page: rooms written in the
\* floor / type / dimensions form, and lines that are not rooms.
RoomLineTexts ==
  {ExampleRoomLine, CompactRoomLine, FeetRoomLine, InchesRoomLine,
   HeaderLine, EmptyLine, TotalLine, NoWidthLine}

RECURSIVE JoinLines(_)
JoinLines(ls) ==
  IF ls = << >> THEN << >> ELSE Head(ls) \o <<"\n">> \o JoinLines(Tail(ls))

\* The detail text around a room table with the lines ls.
RoomsText(ls) ==
  RoomInformationLabel \o <<"\n">> \o JoinLines(ls)
    \o BathroomsLabel \o <<" ","2">>

RoomsInit ==
  /\ RestIdle
  /\ PipeIdle
  /\ FetchIdle
  /\ fnInput \in {RoomsText(ls) : ls \in SeqsUpTo(RoomLineTexts, MaxRoomLines)}
  /\ fnOutput = NotCalled

ExtractRoomsCallBot ==
  /\ fnOutput = NotCalled
  /\ fnOutput' = extractRoomsOf(fnInput, "bot")
  /\ UNCHANGED <<fnInput, pipeVars, fetchVars, restVars>>

ExtractRoomsCallParsers ==
  /\ fnOutput = NotCalled
  /\ fnOutput' = extractRoomsOf(fnInput, "parsers")
  /\ UNCHANGED <<fnInput, pipeVars, fetchVars, restVars>>

RoomsNext == ExtractRoomsCallBot \/ ExtractRoomsCallParsers

RoomsSpec == RoomsInit /\ [][RoomsNext]_vars

RoomsExtracted == fnOutput # NotCalled

\* The room a line of the table stands for, read off the line by hand;
\* null for a line that is not a room.
RoomWritten(line) ==
  CASE line = ExampleRoomLine ->
         [floor |-> <<"M","a","i","n">>,
          type  |-> <<"L","i","v","i","n","g"," ","R","o","o","m">>,
          dimensions |-> [length |-> <<"2","0","'","6","\"">>,
                          width  |-> <<"1","5","'","2","\"">>]]
    [] line = CompactRoomLine ->
         [floor |-> <<"A","b","o","v","e">>,
          type  |-> <<"B","e","d","r","o","o","m">>,
          dimensions |-> [length |-> <<"9">>, width |-> <<"8">>]]
    [] line = FeetRoomLine ->
         [floor |-> <<"B","s","m","t">>,
          type  |-> <<"D","e","n">>,
          dimensions |-> [length |-> <<"1","2","'">>,
                          width  |-> <<"1","0","'">>]]
    [] line = InchesRoomLine ->
         [floor |-> <<"M","a","i","n">>,
          type  |-> <<"K","i","t","c","h","e","n">>,
          dimensions |-> [length |-> <<"1","1","'","4","\"">>,
                          width  |-> <<"9","'">>]]
    [] OTHER -> Null

RECURSIVE RoomsWritten(_)
RoomsWritten(ls) ==
  IF ls = << >> THEN << >>
  ELSE IF RoomWritten(Head(ls)) = Null THEN RoomsWritten(Tail(ls))
  ELSE <<RoomWritten(Head(ls))>> \o RoomsWritten(Tail(ls))

\* C24: room extraction is per line: between "Room Information:" and the
\* following "Bathrooms:" every line of the form floor, type of one or two
\* words, dim1 × dim2 gives one room {floor, type, dimensions{length,
\* width}} in line order, and every other line is skipped without effect on
\* the rest ("Main Living Room 20'6\" × 15'2\"" gives Main / Living Room /
\* 20'6\" / 15'2\").
C24_RoomsPerLine ==
  RoomsExtracted =>
    \A ls \in SeqsUpTo(RoomLineTexts, MaxRoomLines) :
      fnInput = RoomsText(ls) => fnOutput = Returned(RoomsWritten(ls))

\* A table whose first line is no room and whose second line is the
\* example room has been extracted.
C24_Witness ==
  /\ RoomsExtracted
  /\ fnInput = RoomsText(<<NoWidthLine, ExampleRoomLine>>)
  /\ fnOutput = Returned(<<RoomWritten(ExampleRoomLine)>>)

(***************************************************************************)
(* scrapeListingDetails on the text of a detail page with a room table:    *)
(* the text is cleaned and then parsed.                                    *)
(***************************************************************************)
PageInit ==
  /\ RestIdle
  /\ PipeIdle
  /\ FetchIdle
  /\ fnInput \in {RoomsText(ls) : ls \in SeqsUpTo(RoomLineTexts, MaxRoomLines)}
  /\ fnOutput = NotCalled

ScrapeDetailsCallBot ==
  /\ fnOutput = NotCalled
  /\ fnOutput' = scrapeListingDetails([kind |-> "data", raw |-> fnInput])
  /\ UNCHANGED <<fnInput, pipeVars, fetchVars, restVars>>

ScrapeDetailsCallParsers ==
  /\ fnOutput = NotCalled
  /\ fnOutput' = scrapeListingDetailsParsers([kind |-> "data", raw |-> fnInput])
  /\ UNCHANGED <<fnInput, pipeVars, fetchVars, restVars>>

PageNext == ScrapeDetailsCallBot \/ ScrapeDetailsCallParsers

PageSpec == PageInit /\ [][PageNext]_vars

PageScraped == fnOutput # NotCalled

\* C38: the text of the page reaches the parser with its line breaks
\* collapsed, so detailedInfo.rooms has length 0 or 1, however many rooms
\* the page lists.
C38_AtMostOneRoom ==
  PageScraped =>
    /\ fnOutput # Null
    /\ fnOutput # Raised
    /\ Len(fnOutput.rooms) <= 1

\* A page that lists two rooms gave a detailedInfo with one.
C38_Witness ==
  /\ PageScraped
  /\ fnInput = RoomsText(<<ExampleRoomLine, CompactRoomLine>>)
  /\ Len(fnOutput.rooms) = 1

(***************************************************************************)
(* scrapeAndUpdate: one run crawls and enriches, writes the dataset to a   *)
(* file named after the day and hands the file to the index upload.  The   *)
(* awaited functions are taken by how they settle.                         *)
(***************************************************************************)
MaxRuns == 2

\* What scrapeAllListingsWithDetails can resolve to (listing ids).
RunDatasets == {<< >>, <<"101">>, <<"101", "103">>}

\* new Date().toISOString().split("T")[0]
Days == {"2024-05-01", "2024-05-02"}

\* `listings${day}.json`
FileNameOf(day) == <<"listings", day, ".json">>

\* JSON.stringify(data, null, 2)
Stringify(data) == [json |-> data]

RunEvent(kind, name, content) ==
  [run |-> rRun, kind |-> kind, name |-> name, content |-> content]

\* The mutant calls the upload also when the write threw.
AfterCrawlUploadAlways(data, fileName, writeOk) ==
  IF writeOk
    THEN [pc |-> "files.create",
          events |-> <<RunEvent("write", fileName, Stringify(data)),
                       RunEvent("upload", fileName, Null)>>]
    ELSE [pc |-> "files.create",
          events |-> <<RunEvent("writeThrew", fileName, Null),
                       RunEvent("upload", fileName, Null)>>]

\* scrapeAndUpdate from the resolution of the crawl to its next await:
\* saveScrapedDataToFile (fs.writeFileSync succeeds or throws) and, after
\* it, the call of uploadFileToOpenAI up to openai.files.create.
AfterCrawl(data, fileName, writeOk) ==
  IF writeOk
    THEN [pc |-> "files.create",
          events |-> <<RunEvent("write", fileName, Stringify(data)),
                       RunEvent("upload", fileName, Null)>>]
    ELSE [pc |-> "idle",
          events |-> <<RunEvent("writeThrew", fileName, Null),
                       RunEvent("caught", fileName, Null)>>]

RunInit ==
  /\ PipeIdle
  /\ FetchIdle
  /\ FnIdle
  /\ RestIdle

\* scrapeAndUpdate() is called and awaits scrapeAllListingsWithDetails.
RunStart ==
  /\ rPc = "idle"
  /\ rRun < MaxRuns
  /\ rRun' = rRun + 1
  /\ rPc' = "crawl"
  /\ rFileName' = << >>
  /\ UNCHANGED <<rEvents, pipeVars, fetchVars, fnVars, chatVars>>

\* The crawl and enrichment resolve with the dataset.
CrawlResolves ==
  /\ rPc = "crawl"
  /\ \E data \in RunDatasets, day \in Days, writeOk \in BOOLEAN :
       LET after == AfterCrawl(data, FileNameOf(day), writeOk)
       IN  /\ rFileName' = FileNameOf(day)
           /\ rEvents' = rEvents \o after.events
           /\ rPc' = after.pc
  /\ UNCHANGED <<rRun, pipeVars, fetchVars, fnVars, chatVars>>

\* The awaited scrapeAllListingsWithDetails rejects: the catch of
\* scrapeAndUpdate logs the error.
CrawlRejects ==
  /\ rPc = "crawl"
  /\ rEvents' = rEvents \o <<RunEvent("crawlThrew", << >>, Null),
                             RunEvent("caught", << >>, Null)>>
  /\ rPc' = "idle"
  /\ UNCHANGED <<rRun, rFileName, pipeVars, fetchVars, fnVars, chatVars>>

\* The mutant lets a rejection of openai.files.create leave
\* uploadFileToOpenAI and scrapeAndUpdate uncaught.
FileCreateSettlesUncaught ==
  /\ rPc = "files.create"
  /\ \E ok \in BOOLEAN :
       IF ok
         THEN /\ rPc' = "vectorStores.files.create"
              /\ rEvents' = Append(rEvents,
                                   RunEvent("fileCreated", rFileName, Null))
         ELSE /\ rPc' = "idle"
              /\ rEvents' = rEvents \o
                              <<RunEvent("uploadFailed", rFileName, Null),
                                RunEvent("rejected", rFileName, Null)>>
  /\ UNCHANGED <<rRun, rFileName, pipeVars, fetchVars, fnVars, chatVars>>

\* openai.files.create settles; a rejection is caught inside
\* uploadFileToOpenAI, which then returns normally.
FileCreateSettles ==
  /\ rPc = "files.create"
  /\ \E ok \in BOOLEAN :
       IF ok
         THEN /\ rPc' = "vectorStores.files.create"
              /\ rEvents' = Append(rEvents,
                                   RunEvent("fileCreated", rFileName, Null))
         ELSE /\ rPc' = "idle"
              /\ rEvents' = rEvents \o
                              <<RunEvent("uploadFailed", rFileName, Null),
                                RunEvent("completed", rFileName, Null)>>
  /\ UNCHANGED <<rRun, rFileName, pipeVars, fetchVars, fnVars, chatVars>>

\* openai.beta.vectorStores.files.create settles.
VectorStoreSettles ==
  /\ rPc = "vectorStores.files.create"
  /\ \E ok \in BOOLEAN :
       rEvents' = rEvents \o
         <<RunEvent(IF ok THEN "indexed" ELSE "uploadFailed", rFileName, Null),
           RunEvent("completed", rFileName, Null)>>
  /\ rPc' = "idle"
  /\ UNCHANGED <<rRun, rFileName, pipeVars, fetchVars, fnVars, chatVars>>

RunNext ==
  \/ RunStart
  \/ CrawlResolves
  \/ CrawlRejects
  \/ FileCreateSettles
  \/ VectorStoreSettles

RunSpec == RunInit /\ [][RunNext]_vars

\* The positions in the history of the events of one kind of run r.
EventsOf(r, kind) ==
  {j \in 1..Len(rEvents) : rEvents[j].run = r /\ rEvents[j].kind = kind}

RunIsOver(r) == r < rRun \/ (r = rRun /\ rPc = "idle")

\* C26: in each run the dataset is written to exactly one file and the
\* index upload is invoked exactly once, after the write and with the same
\* file name; when the crawl, the enrichment or the write throws, the
\* upload is not invoked.
C26_SingleHandoff ==
  \A r \in 1..rRun :
    /\ Cardinality(EventsOf(r, "write")) <= 1
    /\ Cardinality(EventsOf(r, "upload")) <= 1
    /\ \A u \in EventsOf(r, "upload") :
         \E w \in EventsOf(r, "write") :
           w < u /\ rEvents[w].name = rEvents[u].name
    /\ (EventsOf(r, "crawlThrew") \cup EventsOf(r, "writeThrew") # {}) =>
         EventsOf(r, "upload") = {}
    /\ (/\ RunIsOver(r)
        /\ EventsOf(r, "crawlThrew") \cup EventsOf(r, "writeThrew") = {}) =>
         /\ Cardinality(EventsOf(r, "write")) = 1
         /\ Cardinality(EventsOf(r, "upload")) = 1

\* A first run whose write threw and a second run that wrote its file and
\* handed it to the upload.
C26_Witness ==
  /\ rRun = 2
  /\ rPc = "idle"
  /\ EventsOf(1, "writeThrew") # {}
  /\ EventsOf(1, "upload") = {}
  /\ EventsOf(2, "write") # {}
  /\ EventsOf(2, "indexed") # {}

\* The history of run r, in order.
RunHistory(r) == SelectSeq(rEvents, LAMBDA e : e.run = r)

\* How a run that is over ended: the kind of its last event.
RunEnding(r) == RunHistory(r)[Len(RunHistory(r))].kind

\* C39: scrapeAndUpdate never rejects.  A throw of the crawl, the
\* enrichment or the write is caught; a failed index upload is caught
\* inside uploadFileToOpenAI, after the write of the run, and the run
\* still reaches its normal completion; a run that found no listing still
\* writes the file (an empty array) and calls the upload.
C39_RunNeverRejects ==
  \A r \in 1..rRun :
    /\ EventsOf(r, "rejected") = {}
    /\ RunIsOver(r) => RunEnding(r) \in {"caught", "completed"}
    /\ (EventsOf(r, "crawlThrew") \cup EventsOf(r, "writeThrew") # {}) =>
         /\ RunIsOver(r)
         /\ RunEnding(r) = "caught"
    /\ \A f \in EventsOf(r, "uploadFailed") :
         /\ \E w \in EventsOf(r, "write") :
              w < f /\ rEvents[w].name = rEvents[f].name
         /\ RunIsOver(r)
         /\ RunEnding(r) = "completed"
    /\ \A w \in EventsOf(r, "write") :
         rEvents[w].content = Stringify(<< >>) =>
           \E u \in EventsOf(r, "upload") :
             u > w /\ rEvents[u].name = rEvents[w].name

\* A run that found no listing wrote its file, its upload failed at the
\* index and it completed; the next run's crawl threw and was caught.
C39_Witness ==
  /\ rRun = 2
  /\ rPc = "idle"
  /\ \E w \in EventsOf(1, "write") : rEvents[w].content = Stringify(<< >>)
  /\ EventsOf(1, "fileCreated") # {}
  /\ EventsOf(1, "uploadFailed") # {}
  /\ EventsOf(1, "completed") # {}
  /\ EventsOf(2, "crawlThrew") # {}
  /\ EventsOf(2, "caught") # {}

(***************************************************************************)
(* ChatService: the chat relay.  Clients connect over sockets, open or     *)
(* resume a session and send prompts; each prompt is relayed to the        *)
(* assistant and the answer streamed back.  A session idle for             *)
(* SESSION_TIMEOUT is removed by a timer.  The OpenAI calls are taken by   *)
(* how they settle.  Session, timer and thread ids are numbers, 0 standing *)
(* for null.                                                               *)
(***************************************************************************)
MaxSessions == 1
MaxTimers == 2
MaxPrompts == 1

NoSocket == "none"

\* What is left alone by the chat relay.
chatFrame == <<pipeVars, fetchVars, fnVars, runVars>>

Emit(to, event, data) == [to |-> to, event |-> event, data |-> data]

InvalidSession == [message |-> "Invalid session"]

ProcessingError == [message |-> "Error processing your request"]

\* The session object createSession makes.
NewSession == [threadId |-> 0, timeoutId |-> 0]

\* setTimeout(() => this.cleanupSession(sessionId), SESSION_TIMEOUT).  The
\* closure made in refreshSession holds the parameter sessionId; the
\* closures made in the socket's handlers read the socket's variable
\* sessionId when they run.
Timer(fixed, sock) == [id |-> timerCount + 1, fixed |-> fixed, sock |-> sock]

\* The session id the callback of a timer passes to cleanupSession.
TimerSessionId(t) ==
  IF t.sock = NoSocket THEN t.fixed ELSE sockets[t.sock].sessionId

\* All timers wait SESSION_TIMEOUT: they run in the order of their making.
NextTimer == CHOOSE t \in timers : \A u \in timers : t.id <= u.id

ClearTimeout(id) == {t \in timers : t.id # id}

\* The mutant accepts any session id the socket holds.
SessionIdPresent(sessionId) == sessionId # 0

\* sessionId && this.sessions.has(sessionId)
SessionIsValid(sessionId) == sessionId # 0 /\ sessionId \in sessions

\* refreshSession(session, sessionId): the stored timer is cleared and a
\* new one stored.
refreshSession(sessionId) ==
  /\ timers' = ClearTimeout(sessionObjs[sessionId].timeoutId)
                 \cup {Timer(sessionId, NoSocket)}
  /\ sessionObjs' = [sessionObjs EXCEPT ![sessionId].timeoutId = timerCount + 1]
  /\ timerCount' = timerCount + 1

\* sessionId = this.createSession(); socket.emit('session_created', ...)
createSession(s) ==
  /\ sessionObjs' = Append(sessionObjs, NewSession)
  /\ sessions' = sessions \cup {Len(sessionObjs) + 1}
  /\ sockets' = [sockets EXCEPT ![s].sessionId = Len(sessionObjs) + 1]
  /\ emits' = <<Emit(s, "session_created",
                     [sessionId |-> Len(sessionObjs) + 1])>>

\* session.timeoutId = setTimeout(...) in a handler of socket s: the timer
\* stored before is not cleared.
StoreHandlerTimer(s, sessionId) ==
  /\ timers' = timers \cup {Timer(0, s)}
  /\ sessionObjs' = [sessionObjs EXCEPT ![sessionId].timeoutId = timerCount + 1]
  /\ timerCount' = timerCount + 1

\* send_prompt after the assistant is there: the thread is created when
\* the session has none, else the message is posted.
AfterRetrieve(sessionId) ==
  IF sessionObjs[sessionId].threadId = 0
    THEN [pc |-> "thread", call |-> "threads.create"]
    ELSE [pc |-> "message", call |-> "threads.messages.create"]

\* io.on('connection'): setupSocketHandlers(socket), sessionId = null.
Connect(s) ==
  /\ sockets[s].state = "new"
  /\ sockets' = [sockets EXCEPT ![s].state = "open"]
  /\ emits' = << >>
  /\ calls' = << >>
  /\ UNCHANGED <<sessions, sessionObjs, timers, timerCount, prompts,
                 assistant, cleanups, threads, chatFrame>>

\* socket.on('init_session')
InitSession(s) ==
  /\ sockets[s].state = "open"
  /\ createSession(s)
  /\ calls' = << >>
  /\ UNCHANGED <<timers, timerCount, prompts, assistant, cleanups, threads,
                 chatFrame>>

\* socket.on('resume_session'); id 0 stands for a missing or unknown id.
ResumeSession(s) ==
  /\ sockets[s].state = "open"
  /\ \E id \in 0..Len(sessionObjs) :
       IF SessionIsValid(id)
         THEN /\ sockets' = [sockets EXCEPT ![s].sessionId = id]
              /\ refreshSession(id)
              /\ emits' = << >>
              /\ UNCHANGED sessions
         ELSE /\ createSession(s)
              /\ UNCHANGED <<timers, timerCount>>
  /\ calls' = << >>
  /\ UNCHANGED <<prompts, assistant, cleanups, threads, chatFrame>>

\* socket.on('send_prompt') up to its first await that waits for OpenAI.
SendPrompt(s) ==
  /\ sockets[s].state = "open"
  /\ IF ~SessionIsValid(sockets[s].sessionId)
       THEN /\ emits' = <<Emit(s, "error", InvalidSession)>>
            /\ calls' = << >>
            /\ UNCHANGED <<sessionObjs, timers, timerCount, prompts>>
       ELSE /\ refreshSession(sockets[s].sessionId)
            /\ LET sessionId == sockets[s].sessionId
                   next == IF assistant = Null
                             THEN [pc |-> "retrieve",
                                   call |-> "assistants.retrieve"]
                             ELSE AfterRetrieve(sessionId)
               IN  /\ prompts' = Append(prompts, [socket |-> s,
                                                  session |-> sessionId,
                                                  pc |-> next.pc])
                   /\ calls' = <<next.call>>
            /\ emits' = << >>
  /\ UNCHANGED <<sessions, sockets, assistant, cleanups, threads, chatFrame>>

\* assistants.retrieve settles; a rejection is caught in retrieveAssistant.
RetrieveSettles(p) ==
  /\ prompts[p].pc = "retrieve"
  /\ \E ok \in BOOLEAN :
       assistant' = IF ok THEN [id |-> "asst"] ELSE assistant
  /\ prompts' = [prompts EXCEPT ![p].pc = AfterRetrieve(prompts[p].session).pc]
  /\ calls' = <<AfterRetrieve(prompts[p].session).call>>
  /\ emits' = << >>
  /\ UNCHANGED <<sessions, sessionObjs, timers, timerCount, sockets, cleanups,
                 threads, chatFrame>>

\* threads.create settles: session.threadId = thread.id, then the message
\* is posted; a rejection goes to the catch of the handler.
ThreadSettles(p) ==
  /\ prompts[p].pc = "thread"
  /\ \E ok \in BOOLEAN :
       IF ok
         THEN /\ threads' = Append(threads, [session |-> prompts[p].session,
                                             deleteRequested |-> FALSE])
              /\ sessionObjs' = [sessionObjs EXCEPT
                                   ![prompts[p].session].threadId =
                                     Len(threads) + 1]
              /\ prompts' = [prompts EXCEPT ![p].pc = "message"]
              /\ calls' = <<"threads.messages.create">>
              /\ emits' = << >>
         ELSE /\ prompts' = [prompts EXCEPT ![p].pc = "done"]
              /\ emits' = <<Emit(prompts[p].socket, "error", ProcessingError)>>
              /\ calls' = << >>
              /\ UNCHANGED <<threads, sessionObjs>>
  /\ UNCHANGED <<sessions, timers, timerCount, sockets, assistant, cleanups,
                 chatFrame>>

\* threads.messages.create settles; the run is streamed with
\* this.assistant.id, which throws when the assistant was not retrieved.
MessageSettles(p) ==
  /\ prompts[p].pc = "message"
  /\ \E ok \in BOOLEAN :
       IF ok /\ assistant # Null
         THEN /\ prompts' = [prompts EXCEPT ![p].pc = "stream"]
              /\ calls' = <<"threads.runs.stream">>
              /\ emits' = << >>
         ELSE /\ prompts' = [prompts EXCEPT ![p].pc = "done"]
              /\ emits' = <<Emit(prompts[p].socket, "error", ProcessingError)>>
              /\ calls' = << >>
  /\ UNCHANGED <<sessions, sessionObjs, timers, timerCount, sockets,
                 assistant, cleanups, threads, chatFrame>>

\* A 'textDelta' of the stream is relayed.
StreamText(p) ==
  /\ prompts[p].pc = "stream"
  /\ emits' = <<Emit(prompts[p].socket, "textDelta", Null)>>
  /\ calls' = << >>
  /\ UNCHANGED <<sessions, sessionObjs, timers, timerCount, sockets, prompts,
                 assistant, cleanups, threads, chatFrame>>

\* 'end' of the stream up to the await of generateSmartReply.
StreamEnds(p) ==
  /\ prompts[p].pc = "stream"
  /\ prompts' = [prompts EXCEPT ![p].pc = "smartReply"]
  /\ emits' = <<Emit(prompts[p].socket, "responseComplete", Null)>>
  /\ calls' = <<"chat.completions.create">>
  /\ UNCHANGED <<sessions, sessionObjs, timers, timerCount, sockets,
                 assistant, cleanups, threads, chatFrame>>

\* generateSmartReply settles: the replies are emitted and a timer is
\* stored in the session.  A rejection ends the 'end' handler.
SmartReplySettles(p) ==
  /\ prompts[p].pc = "smartReply"
  /\ prompts' = [prompts EXCEPT ![p].pc = "done"]
  /\ \E ok \in BOOLEAN :
       IF ok
         THEN /\ emits' = <<Emit(prompts[p].socket, "quickReplies", Null)>>
              /\ StoreHandlerTimer(prompts[p].socket, prompts[p].session)
         ELSE /\ emits' = << >>
              /\ UNCHANGED <<sessionObjs, timers, timerCount>>
  /\ calls' = << >>
  /\ UNCHANGED <<sessions, sockets, assistant, cleanups, threads, chatFrame>>

\* socket.on('disconnect')
Disconnect(s) ==
  /\ sockets[s].state = "open"
  /\ sockets' = [sockets EXCEPT ![s].state = "closed"]
  /\ IF SessionIsValid(sockets[s].sessionId)
       THEN StoreHandlerTimer(s, sockets[s].sessionId)
       ELSE UNCHANGED <<sessionObjs, timers, timerCount>>
  /\ emits' = << >>
  /\ calls' = << >>
  /\ UNCHANGED <<sessions, prompts, assistant, cleanups, threads, chatFrame>>

\* A timer runs cleanupSession(sessionId): with a thread the deletion is
\* awaited, without one the session is deleted from the map at once.
TimerFires ==
  /\ timers # {}
  /\ timers' = timers \ {NextTimer}
  /\ LET sessionId == TimerSessionId(NextTimer)
     IN  IF sessionId \in sessions /\ sessionObjs[sessionId].threadId # 0
           THEN /\ cleanups' = cleanups \cup
                     {[timer |-> NextTimer.id, sessionId |-> sessionId,
                       threadId |-> sessionObjs[sessionId].threadId]}
                /\ threads' = [threads EXCEPT
                     ![sessionObjs[sessionId].threadId].deleteRequested = TRUE]
                /\ calls' = <<"threads.del">>
                /\ UNCHANGED sessions
           ELSE /\ sessions' = sessions \ {sessionId}
                /\ calls' = << >>
                /\ UNCHANGED <<cleanups, threads>>
  /\ emits' = << >>
  /\ UNCHANGED <<sessionObjs, timerCount, sockets, prompts, assistant,
                 chatFrame>>

\* threads.del settles: 'clear_chat' goes to every client when it
\* resolved; the session is deleted from the map either way.
DelSettles(c) ==
  /\ c \in cleanups
  /\ cleanups' = cleanups \ {c}
  /\ sessions' = sessions \ {c.sessionId}
  /\ \E ok \in BOOLEAN :
       emits' = IF ok
                  THEN <<Emit("all", "clear_chat", [sessionId |-> c.sessionId])>>
                  ELSE << >>
  /\ calls' = << >>
  /\ UNCHANGED <<sessionObjs, timers, timerCount, sockets, prompts, assistant,
                 threads, chatFrame>>

ChatInit ==
  /\ PipeIdle
  /\ FetchIdle
  /\ FnIdle
  /\ RestIdle

\* The sessions, timers and prompts of a run of the model are counted and
\* the run is kept within limits.
Within(limits) ==
  /\ Len(sessionObjs) <= limits.sessions
  /\ timerCount <= limits.timers
  /\ Len(prompts) <= limits.prompts

ChatLimits ==
  [sessions |-> MaxSessions, timers |-> MaxTimers, prompts |-> MaxPrompts]

ChatNext ==
  \/ \E s \in Sockets : Connect(s)
  \/ \E s \in Sockets : InitSession(s) /\ Within(ChatLimits)'
  \/ \E s \in Sockets : ResumeSession(s) /\ Within(ChatLimits)'
  \/ \E s \in Sockets : SendPrompt(s) /\ Within(ChatLimits)'
  \/ \E p \in 1..Len(prompts) : RetrieveSettles(p)
  \/ \E p \in 1..Len(prompts) : ThreadSettles(p)
  \/ \E p \in 1..Len(prompts) : MessageSettles(p)
  \/ \E p \in 1..Len(prompts) : StreamText(p)
  \/ \E p \in 1..Len(prompts) : StreamEnds(p)
  \/ \E p \in 1..Len(prompts) : SmartReplySettles(p) /\ Within(ChatLimits)'
  \/ \E s \in Sockets : Disconnect(s) /\ Within(ChatLimits)'
  \/ TimerFires
  \/ \E c \in cleanups : DelSettles(c)

ChatSpec == ChatInit /\ [][ChatNext]_vars

\* C29: a send_prompt on a socket that has no session id, or whose session
\* id is not in the sessions map any more, emits one 'error' event
\* ("Invalid session") to that socket, makes no OpenAI call, starts no
\* relay and leaves the sessions map, the session objects and all timers
\* unchanged.
C29_InvalidSessionRejected ==
  [][\A s \in Sockets :
       (/\ SendPrompt(s)
        /\ \/ sockets[s].sessionId = 0
           \/ sockets[s].sessionId \notin sessions) =>
         /\ emits' = <<Emit(s, "error", InvalidSession)>>
         /\ calls' = << >>
         /\ UNCHANGED <<sessions, sessionObjs, timers, timerCount, prompts,
                        cleanups, threads, assistant>>]_vars

\* A socket whose session was removed by its timer has just been answered
\* with the error.
C29_Witness ==
  \E s \in Sockets :
    /\ sockets[s].state = "open"
    /\ sockets[s].sessionId # 0
    /\ sockets[s].sessionId \notin sessions
    /\ emits = <<Emit(s, "error", InvalidSession)>>
    /\ calls = << >>

\* The pending timers whose callback would clean up the session.
TimersOf(sessionId) == {t \in timers : TimerSessionId(t) = sessionId}

\* C30: in every reachable state a live session has at most one pending
\* cleanup timer, and that timer is the one stored in session.timeoutId.
C30_OneStoredTimer ==
  \A sessionId \in sessions :
    /\ Cardinality(TimersOf(sessionId)) <= 1
    /\ \A t \in TimersOf(sessionId) : t.id = sessionObjs[sessionId].timeoutId

\* C31: no thread is left undeleted once its session is gone: every thread
\* created for a session that is not in the sessions map any more has had
\* its deletion requested.
C31_ThreadDeletedWithSession ==
  \A t \in 1..Len(threads) :
    threads[t].session \notin sessions => threads[t].deleteRequested

(***************************************************************************)
(* The chat relay with room for two sessions and two prompts under way.    *)
(***************************************************************************)
WideSessions == 2
WideTimers == 2
WidePrompts == 2

WideLimits ==
  [sessions |-> WideSessions, timers |-> WideTimers, prompts |-> WidePrompts]

WideChatNext ==
  \/ \E s \in Sockets : Connect(s)
  \/ \E s \in Sockets : InitSession(s) /\ Within(WideLimits)'
  \/ \E s \in Sockets : ResumeSession(s) /\ Within(WideLimits)'
  \/ \E s \in Sockets : SendPrompt(s) /\ Within(WideLimits)'
  \/ \E p \in 1..Len(prompts) : RetrieveSettles(p)
  \/ \E p \in 1..Len(prompts) : ThreadSettles(p)
  \/ \E p \in 1..Len(prompts) : MessageSettles(p)
  \/ \E p \in 1..Len(prompts) : StreamText(p)
  \/ \E p \in 1..Len(prompts) : StreamEnds(p)
  \/ \E p \in 1..Len(prompts) : SmartReplySettles(p) /\ Within(WideLimits)'
  \/ \E s \in Sockets : Disconnect(s) /\ Within(WideLimits)'
  \/ TimerFires
  \/ \E c \in cleanups : DelSettles(c)

WideChatSpec == ChatInit /\ [][WideChatNext]_vars

\* An event emitted with socket.emit reaches that socket, one emitted with
\* io.emit every connected socket.
Receives(s, e) == sockets[s].state = "open" /\ e.to \in {s, "all"}

\* C34: a socket bound to a session never receives a 'clear_chat' event
\* caused by the cleanup of another session.
C34_ClearChatToOwnClient ==
  \A i \in 1..Len(emits) :
    emits[i].event = "clear_chat" =>
      \A s \in Sockets :
        (/\ sockets[s].sessionId # 0
         /\ sockets[s].sessionId # emits[i].data.sessionId) =>
          ~Receives(s, emits[i])

\* C35: at most one OpenAI thread is created for a session.
C35_OneThreadPerSession ==
  \A t, u \in 1..Len(threads) :
    threads[t].session = threads[u].session => t = u

\* C36: each entry of the sessions map is the current session of a
\* connected socket, or has a pending cleanup timer (or a cleanup that is
\* waiting for the deletion of its thread).
C36_NoLeakedSession ==
  \A sessionId \in sessions :
    \/ \E s \in Sockets : /\ sockets[s].state = "open"
                          /\ sockets[s].sessionId = sessionId
    \/ TimersOf(sessionId) # {}
    \/ \E c \in cleanups : c.sessionId = sessionId

(***************************************************************************)
(* The chat module with the cleanup guard (isCleaningUp).  It keeps the    *)
(* same state as the ChatService; its session objects carry the flag       *)
(* isCleaningUp; the age of lastActive is an input of resume_session.     *)
(* cleanups is the history of the cleanupSession calls that went past the  *)
(* guard; prompts holds every handler that awaits.                         *)
(***************************************************************************)
GuardSessions == 2
GuardTimers == 2
GuardPrompts == 2

\* A handler that has returned holds nothing any more.
GReturned == [kind |-> "none", socket |-> NoSocket, session |-> 0, pc |-> "done"]

GNewSession ==
  [threadId |-> 0, timeoutId |-> 0, isCleaningUp |-> FALSE]

GInvalidSession == [message |-> "Invalid session", code |-> "SESSION_INVALID"]

GPromptError ==
  [message |-> "Error processing your request", code |-> "PROMPT_ERROR"]

GStreamFailed ==
  [message |-> "Error processing your request", code |-> "STREAM_ERROR"]

GInitFailed ==
  [message |-> "Failed to initialize chat session",
   code |-> "ASSISTANT_INIT_FAILED"]

GClearFailed ==
  [message |-> "Failed to clear chat history. Please try again.",
   code |-> "CLEAR_FAILED"]

GSessionIdRequired == [message |-> "Session ID required"]

\* io.emit('clear_chat', { sessionId, reason: 'session_timeout' })
GClearChatEvent(sessionId) ==
  Emit("all", "clear_chat",
       [sessionId |-> sessionId, reason |-> "session_timeout"])

GSessionCreated(s, sessionId) ==
  Emit(s, "session_created", [sessionId |-> sessionId])

\* The mutant has no guard: a call goes on while another is in progress.
GCleanupUnguarded(sessionId) ==
  IF sessionId \notin sessions
    THEN [result |-> "true", proceeds |-> FALSE, sessions |-> sessions,
          objs |-> sessionObjs, timers |-> timers, emits |-> << >>]
    ELSE LET objs == [sessionObjs EXCEPT ![sessionId].isCleaningUp = TRUE,
                                         ![sessionId].timeoutId = 0]
             left == ClearTimeout(sessionObjs[sessionId].timeoutId)
         IN  IF sessionObjs[sessionId].threadId # 0
               THEN [result |-> "await", proceeds |-> TRUE,
                     sessions |-> sessions, objs |-> objs, timers |-> left,
                     emits |-> << >>]
               ELSE [result |-> "true", proceeds |-> TRUE,
                     sessions |-> sessions \ {sessionId}, objs |-> objs,
                     timers |-> left,
                     emits |-> <<GClearChatEvent(sessionId)>>]

\* cleanupSession(sessionId) up to its await of threads.del, or to its
\* return when it has nothing to await: what it returns, whether it went
\* past the guard, and the map, the session objects, the timers and the
\* events it leaves.
GCleanup(sessionId) ==
  IF sessionId \notin sessions
    THEN [result |-> "true", proceeds |-> FALSE, sessions |-> sessions,
          objs |-> sessionObjs, timers |-> timers, emits |-> << >>]
  ELSE IF sessionObjs[sessionId].isCleaningUp
    THEN [result |-> "false", proceeds |-> FALSE, sessions |-> sessions,
          objs |-> sessionObjs, timers |-> timers, emits |-> << >>]
    ELSE LET objs == [sessionObjs EXCEPT ![sessionId].isCleaningUp = TRUE,
                                         ![sessionId].timeoutId = 0]
             left == ClearTimeout(sessionObjs[sessionId].timeoutId)
         IN  IF sessionObjs[sessionId].threadId # 0
               THEN [result |-> "await", proceeds |-> TRUE,
                     sessions |-> sessions, objs |-> objs, timers |-> left,
                     emits |-> << >>]
               ELSE [result |-> "true", proceeds |-> TRUE,
                     sessions |-> sessions \ {sessionId}, objs |-> objs,
                     timers |-> left,
                     emits |-> <<GClearChatEvent(sessionId)>>]

\* The record of a cleanupSession call that went past the guard; caller
\* is the handler that awaits it, 0 for a timer.
GCall(sessionId, caller) ==
  [n |-> Cardinality(cleanups) + 1,
   sessionId |-> sessionId,
   threadId |-> sessionObjs[sessionId].threadId,
   caller |-> caller,
   del |-> IF sessionObjs[sessionId].threadId # 0 THEN "pending" ELSE "none"]

\* threads.del is called for the thread of the session.
GDeletionRequested(sessionId) ==
  [threads EXCEPT ![sessionObjs[sessionId].threadId].deleteRequested = TRUE]

\* refreshSession(session, sessionId): lastActive is now, the stored timer
\* is cleared and a new one, for sessionId, stored in the session object.
GRefreshSession(session, sessionId) ==
  /\ timers' = ClearTimeout(sessionObjs[session].timeoutId)
                 \cup {Timer(sessionId, NoSocket)}
  /\ sessionObjs' = [sessionObjs EXCEPT ![session].timeoutId = timerCount + 1]
  /\ timerCount' = timerCount + 1

\* sessionId = createSession(); socket.emit('session_created', ...) on the
\* map ss and the objects objs, after the events before.
GCreateSession(s, ss, objs, before) ==
  /\ sessionObjs' = Append(objs, GNewSession)
  /\ sessions' = ss \cup {Len(objs) + 1}
  /\ sockets' = [sockets EXCEPT ![s].sessionId = Len(objs) + 1]
  /\ emits' = before \o <<GSessionCreated(s, Len(objs) + 1)>>

\* await cleanupSession(id) in the clear_chat (kind "clear") or the
\* resume_session (kind "resume") handler of socket s, and what the
\* handler does after it: a new session, or the error of clear_chat when
\* the call returned false.
GCleanupAndRenew(s, id, kind) ==
  LET c == GCleanup(id)
  IN  /\ timers' = c.timers
      /\ cleanups' =
           IF c.proceeds
             THEN cleanups \cup
                    {GCall(id, IF c.result = "await" THEN Len(prompts) + 1
                                                     ELSE 0)}
             ELSE cleanups
      /\ IF c.result = "await"
           THEN /\ prompts' = Append(prompts, [kind |-> kind, socket |-> s,
                                               session |-> id,
                                               pc |-> "cleanup"])
                /\ threads' = GDeletionRequested(id)
                /\ calls' = <<"threads.del">>
                /\ sessionObjs' = c.objs
                /\ sockets' = IF kind = "resume"
                                THEN [sockets EXCEPT ![s].sessionId = id]
                                ELSE sockets
                /\ emits' = << >>
                /\ UNCHANGED sessions
           ELSE IF c.result = "false" /\ kind = "clear"
             THEN /\ emits' = <<Emit(s, "error", GClearFailed)>>
                  /\ calls' = << >>
                  /\ UNCHANGED <<sessions, sessionObjs, sockets, prompts,
                                 threads>>
             ELSE /\ GCreateSession(s, c.sessions, c.objs, c.emits)
                  /\ calls' = << >>
                  /\ UNCHANGED <<prompts, threads>>
      /\ UNCHANGED <<timerCount, assistant, chatFrame>>

\* socket.on('init_session'): the session is created, then the assistant
\* awaited.
GInitSession(s) ==
  /\ sockets[s].state = "open"
  /\ IF assistant # Null
       THEN /\ GCreateSession(s, sessions, sessionObjs, << >>)
            /\ calls' = << >>
            /\ UNCHANGED prompts
       ELSE /\ sessionObjs' = Append(sessionObjs, GNewSession)
            /\ sessions' = sessions \cup {Len(sessionObjs) + 1}
            /\ sockets' = [sockets EXCEPT ![s].sessionId = Len(sessionObjs) + 1]
            /\ prompts' = Append(prompts, [kind |-> "init", socket |-> s,
                                           session |-> Len(sessionObjs) + 1,
                                           pc |-> "retrieve"])
            /\ emits' = << >>
            /\ calls' = <<"assistants.retrieve">>
  /\ UNCHANGED <<timers, timerCount, assistant, cleanups, threads, chatFrame>>

\* socket.on('resume_session') with data.sessionId = id (0: none); isExpired
\* is whether Date.now() - session.lastActive > SESSION_TIMEOUT.
GResumeSession(s, id, isExpired) ==
  /\ sockets[s].state = "open"
  /\ IF ~SessionIsValid(id)
       THEN /\ GCreateSession(s, sessions, sessionObjs, << >>)
            /\ calls' = << >>
            /\ UNCHANGED <<timers, timerCount, prompts, assistant, cleanups,
                           threads, chatFrame>>
       ELSE IF isExpired
         THEN GCleanupAndRenew(s, id, "resume")
         ELSE /\ sockets' = [sockets EXCEPT ![s].sessionId = id]
              /\ GRefreshSession(id, id)
              /\ emits' = <<Emit(s, "session_resumed", [sessionId |-> id])>>
              /\ calls' = << >>
              /\ UNCHANGED <<sessions, prompts, assistant, cleanups, threads,
                             chatFrame>>

\* socket.on('clear_chat') with data.sessionId = id (0: none).
GClearChat(s, id) ==
  /\ sockets[s].state = "open"
  /\ IF id = 0
       THEN /\ emits' = <<Emit(s, "error", GSessionIdRequired)>>
            /\ calls' = << >>
            /\ UNCHANGED <<sessions, sessionObjs, timers, timerCount, sockets,
                           prompts, assistant, cleanups, threads, chatFrame>>
       ELSE IF id \in sessions
         THEN GCleanupAndRenew(s, id, "clear")
         ELSE /\ GCreateSession(s, sessions, sessionObjs, << >>)
              /\ calls' = << >>
              /\ UNCHANGED <<timers, timerCount, prompts, assistant, cleanups,
                             threads, chatFrame>>

\* socket.on('send_prompt') up to its first await that waits for OpenAI.
GSendPrompt(s) ==
  /\ sockets[s].state = "open"
  /\ IF ~SessionIsValid(sockets[s].sessionId)
       THEN /\ emits' = <<Emit(s, "error", GInvalidSession)>>
            /\ calls' = << >>
            /\ UNCHANGED <<sessionObjs, timers, timerCount, prompts>>
       ELSE /\ GRefreshSession(sockets[s].sessionId, sockets[s].sessionId)
            /\ LET sessionId == sockets[s].sessionId
                   next == IF assistant = Null
                             THEN [pc |-> "retrieve",
                                   call |-> "assistants.retrieve"]
                             ELSE AfterRetrieve(sessionId)
               IN  /\ prompts' = Append(prompts, [kind |-> "prompt",
                                                  socket |-> s,
                                                  session |-> sessionId,
                                                  pc |-> next.pc])
                   /\ calls' = <<next.call>>
            /\ emits' = << >>
  /\ UNCHANGED <<sessions, sockets, assistant, cleanups, threads, chatFrame>>

\* assistants.retrieve settles for init_session or send_prompt; the
\* rejection is thrown on to the catch of the handler.
GRetrieveSettles(p) ==
  /\ prompts[p].pc = "retrieve"
  /\ \E ok \in BOOLEAN :
       IF ok
         THEN /\ assistant' = [id |-> "asst"]
              /\ IF prompts[p].kind = "init"
                   THEN /\ prompts' = [prompts EXCEPT ![p] = GReturned]
                        /\ emits' = <<GSessionCreated(prompts[p].socket,
                                                      prompts[p].session)>>
                        /\ calls' = << >>
                   ELSE /\ prompts' = [prompts EXCEPT ![p].pc =
                                         AfterRetrieve(prompts[p].session).pc]
                        /\ calls' = <<AfterRetrieve(prompts[p].session).call>>
                        /\ emits' = << >>
         ELSE /\ prompts' = [prompts EXCEPT ![p] = GReturned]
              /\ emits' = <<Emit(prompts[p].socket, "error",
                                 IF prompts[p].kind = "init"
                                   THEN GInitFailed ELSE GPromptError)>>
              /\ calls' = << >>
              /\ UNCHANGED assistant
  /\ UNCHANGED <<sessions, sessionObjs, timers, timerCount, sockets, cleanups,
                 threads, chatFrame>>

\* threads.create settles.
GThreadSettles(p) ==
  /\ prompts[p].pc = "thread"
  /\ \E ok \in BOOLEAN :
       IF ok
         THEN /\ threads' = Append(threads, [session |-> prompts[p].session,
                                             deleteRequested |-> FALSE])
              /\ sessionObjs' = [sessionObjs EXCEPT
                                   ![prompts[p].session].threadId =
                                     Len(threads) + 1]
              /\ prompts' = [prompts EXCEPT ![p].pc = "message"]
              /\ calls' = <<"threads.messages.create">>
              /\ emits' = << >>
         ELSE /\ prompts' = [prompts EXCEPT ![p] = GReturned]
              /\ emits' = <<Emit(prompts[p].socket, "error", GPromptError)>>
              /\ calls' = << >>
              /\ UNCHANGED <<threads, sessionObjs>>
  /\ UNCHANGED <<sessions, timers, timerCount, sockets, assistant, cleanups,
                 chatFrame>>

\* threads.messages.create settles; the run is streamed.
GMessageSettles(p) ==
  /\ prompts[p].pc = "message"
  /\ \E ok \in BOOLEAN :
       IF ok
         THEN /\ prompts' = [prompts EXCEPT ![p].pc = "stream"]
              /\ calls' = <<"threads.runs.stream">>
              /\ emits' = << >>
         ELSE /\ prompts' = [prompts EXCEPT ![p] = GReturned]
              /\ emits' = <<Emit(prompts[p].socket, "error", GPromptError)>>
              /\ calls' = << >>
  /\ UNCHANGED <<sessions, sessionObjs, timers, timerCount, sockets,
                 assistant, cleanups, threads, chatFrame>>

\* A 'textDelta' of the stream is relayed.
GStreamText(p) ==
  /\ prompts[p].pc = "stream"
  /\ emits' = <<Emit(prompts[p].socket, "textDelta", Null)>>
  /\ calls' = << >>
  /\ UNCHANGED <<sessions, sessionObjs, timers, timerCount, sockets, prompts,
                 assistant, cleanups, threads, chatFrame>>

\* 'error' of the stream: the client is told and the run cancelled when
\* its id is known.  Whether 'end' follows is left open.
GStreamError(p) ==
  /\ prompts[p].pc = "stream"
  /\ prompts' = [prompts EXCEPT ![p].pc = "errored"]
  /\ emits' = <<Emit(prompts[p].socket, "error", GStreamFailed)>>
  /\ \E runIdKnown \in BOOLEAN :
       calls' = IF runIdKnown /\ sessionObjs[prompts[p].session].threadId # 0
                  THEN <<"threads.runs.cancel">>
                  ELSE << >>
  /\ UNCHANGED <<sessions, sessionObjs, timers, timerCount, sockets,
                 assistant, cleanups, threads, chatFrame>>

\* 'end' of the stream: refreshSession(session, sessionId) with the session
\* object of the prompt and the socket's sessionId of now.
GStreamEnds(p) ==
  /\ prompts[p].pc \in {"stream", "errored"}
  /\ prompts' = [prompts EXCEPT ![p] = GReturned]
  /\ emits' = <<Emit(prompts[p].socket, "responseComplete", Null)>>
  /\ GRefreshSession(prompts[p].session, sockets[prompts[p].socket].sessionId)
  /\ calls' = << >>
  /\ UNCHANGED <<sessions, sockets, assistant, cleanups, threads, chatFrame>>

\* socket.on('disconnect'): the stored timer is cleared and a new one
\* stored, whose callback reads the socket's sessionId.
GDisconnect(s) ==
  /\ sockets[s].state = "open"
  /\ sockets' = [sockets EXCEPT ![s].state = "closed"]
  /\ IF SessionIsValid(sockets[s].sessionId)
       THEN /\ timers' = ClearTimeout(sessionObjs[sockets[s].sessionId].timeoutId)
                           \cup {Timer(0, s)}
            /\ sessionObjs' = [sessionObjs EXCEPT
                                 ![sockets[s].sessionId].timeoutId =
                                   timerCount + 1]
            /\ timerCount' = timerCount + 1
       ELSE UNCHANGED <<sessionObjs, timers, timerCount>>
  /\ emits' = << >>
  /\ calls' = << >>
  /\ UNCHANGED <<sessions, prompts, assistant, cleanups, threads, chatFrame>>

\* A timer runs cleanupSession(sessionId).
GTimerFires ==
  /\ timers # {}
  /\ LET sessionId == TimerSessionId(NextTimer)
         c == GCleanup(sessionId)
     IN  /\ timers' = c.timers \ {NextTimer}
         /\ sessions' = c.sessions
         /\ sessionObjs' = c.objs
         /\ emits' = c.emits
         /\ cleanups' = IF c.proceeds
                          THEN cleanups \cup {GCall(sessionId, 0)}
                          ELSE cleanups
         /\ threads' = IF c.result = "await"
                         THEN GDeletionRequested(sessionId)
                         ELSE threads
         /\ calls' = IF c.result = "await" THEN <<"threads.del">> ELSE << >>
  /\ UNCHANGED <<timerCount, sockets, prompts, assistant, chatFrame>>

\* The mutant gives up when threads.del throws: the session stays.
GDelSettlesKeepsOnFailure(c) ==
  /\ c \in cleanups
  /\ c.del = "pending"
  /\ \E ok \in BOOLEAN :
       /\ cleanups' = (cleanups \ {c}) \cup
                        {[c EXCEPT !.del = IF ok THEN "ok" ELSE "failed"]}
       /\ IF ~ok
            THEN /\ emits' = << >>
                 /\ UNCHANGED <<sessions, sessionObjs, sockets, prompts>>
          ELSE IF c.caller = 0
            THEN /\ sessions' = sessions \ {c.sessionId}
                 /\ emits' = <<GClearChatEvent(c.sessionId)>>
                 /\ UNCHANGED <<sessionObjs, sockets, prompts>>
            ELSE /\ GCreateSession(prompts[c.caller].socket,
                                   sessions \ {c.sessionId}, sessionObjs,
                                   <<GClearChatEvent(c.sessionId)>>)
                 /\ prompts' = [prompts EXCEPT ![c.caller] = GReturned]
  /\ calls' = << >>
  /\ UNCHANGED <<timers, timerCount, assistant, threads, chatFrame>>

\* threads.del of a cleanupSession call settles, resolved or thrown: the
\* clients are notified, the session is deleted from the map, and the
\* handler that awaited the call makes its new session.
GDelSettles(c) ==
  /\ c \in cleanups
  /\ c.del = "pending"
  /\ \E ok \in BOOLEAN :
       cleanups' = (cleanups \ {c}) \cup
                     {[c EXCEPT !.del = IF ok THEN "ok" ELSE "failed"]}
  /\ IF c.caller = 0
       THEN /\ sessions' = sessions \ {c.sessionId}
            /\ emits' = <<GClearChatEvent(c.sessionId)>>
            /\ UNCHANGED <<sessionObjs, sockets, prompts>>
       ELSE /\ GCreateSession(prompts[c.caller].socket,
                              sessions \ {c.sessionId}, sessionObjs,
                              <<GClearChatEvent(c.sessionId)>>)
            /\ prompts' = [prompts EXCEPT ![c.caller] = GReturned]
  /\ calls' = << >>
  /\ UNCHANGED <<timers, timerCount, assistant, threads, chatFrame>>

\* io.on('connection'): the sockets are named in the order they connect.
GConnect(s) ==
  /\ s = "b" => sockets["a"].state # "new"
  /\ Connect(s)

GuardLimits ==
  [sessions |-> GuardSessions, timers |-> GuardTimers,
   prompts |-> GuardPrompts]

GuardNext ==
  \/ \E s \in Sockets : GConnect(s)
  \/ \E s \in Sockets : GInitSession(s) /\ Within(GuardLimits)'
  \/ \E s \in Sockets : \E id \in 0..Len(sessionObjs) : \E isExpired \in BOOLEAN :
       GResumeSession(s, id, isExpired) /\ Within(GuardLimits)'
  \/ \E s \in Sockets : \E id \in 0..Len(sessionObjs) :
       GClearChat(s, id) /\ Within(GuardLimits)'
  \/ \E s \in Sockets : GSendPrompt(s) /\ Within(GuardLimits)'
  \/ \E p \in 1..Len(prompts) : GRetrieveSettles(p)
  \/ \E p \in 1..Len(prompts) : GThreadSettles(p)
  \/ \E p \in 1..Len(prompts) : GMessageSettles(p)
  \/ \E p \in 1..Len(prompts) : GStreamText(p)
  \/ \E p \in 1..Len(prompts) : GStreamError(p)
  \/ \E p \in 1..Len(prompts) : GStreamEnds(p) /\ Within(GuardLimits)'
  \/ \E s \in Sockets : GDisconnect(s) /\ Within(GuardLimits)'
  \/ GTimerFires
  \/ \E c \in cleanups : GDelSettles(c) /\ Within(GuardLimits)'

GuardSpec == ChatInit /\ [][GuardNext]_vars

\* A cleanupSession call on sessionId finds a cleanup in progress.
CleanupInProgress(sessionId) ==
  sessionId \in sessions /\ sessionObjs[sessionId].isCleaningUp

\* The step is the error of clear_chat for a cleanupSession that returned
\* false.
ClearRefused ==
  \E i \in 1..Len(emits') : /\ emits'[i].event = "error"
                            /\ emits'[i].data = GClearFailed

\* The step runs the timer of a session whose cleanup is in progress.
TimerRefused ==
  /\ timers # {}
  /\ timers' = timers \ {NextTimer}
  /\ CleanupInProgress(TimerSessionId(NextTimer))

\* C32: of the cleanupSession calls on one session (timer, clear_chat,
\* expired resume_session) at most one proceeds: the calls that went past
\* the guard are at most one per session, threads.del is called only by a
\* call that has just gone past the guard and for a thread whose deletion
\* was not requested before, 'clear_chat' is emitted for a session only in
\* the step that removes it from the map, and no id returns to the map; a
\* call that finds the cleanup in progress leaves the map, the session
\* objects, the threads and the cleanups as they are.
C32_OneCleanupProceeds ==
  [][/\ \A c1, c2 \in cleanups' : c1.sessionId = c2.sessionId => c1 = c2
     /\ (\E i \in 1..Len(calls') : calls'[i] = "threads.del") =>
          \E c \in cleanups' \ cleanups :
            /\ c.del = "pending"
            /\ ~threads[c.threadId].deleteRequested
            /\ \A d \in cleanups : d.sessionId # c.sessionId
     /\ \A i \in 1..Len(emits') :
          emits'[i].event = "clear_chat" =>
            /\ emits'[i].data.sessionId \in sessions
            /\ emits'[i].data.sessionId \notin sessions'
     /\ \A sessionId \in sessions' \ sessions : sessionId > Len(sessionObjs)
     /\ ClearRefused =>
          UNCHANGED <<sessions, sessionObjs, timers, threads, cleanups>>
     /\ TimerRefused =>
          UNCHANGED <<sessions, sessionObjs, threads, cleanups>>]_vars

\* clear_chat was refused with CLEAR_FAILED while the cleanup of a timer
\* waits for threads.del.
C32_Witness ==
  /\ \E i \in 1..Len(emits) : /\ emits[i].event = "error"
                              /\ emits[i].data = GClearFailed
  /\ \E c \in cleanups : /\ c.del = "pending"
                         /\ c.caller = 0
                         /\ CleanupInProgress(c.sessionId)

\* The step is one in which a cleanupSession(sessionId) call completes:
\* the call of a timer or of a handler that had nothing to await, or the
\* settling of the threads.del that a call awaited.
CleanupCompletes(sessionId) ==
  \/ /\ GTimerFires
     /\ TimerSessionId(NextTimer) = sessionId
     /\ GCleanup(sessionId).result # "await"
  \/ /\ \E s \in Sockets : GClearChat(s, sessionId)
     /\ sessionId \in sessions
     /\ GCleanup(sessionId).result # "await"
  \/ /\ \E s \in Sockets : GResumeSession(s, sessionId, TRUE)
     /\ SessionIsValid(sessionId)
     /\ GCleanup(sessionId).result # "await"
  \/ \E c \in cleanups : c.sessionId = sessionId /\ GDelSettles(c)

\* C33 as stated: after any completed cleanupSession(id) the map has no
\* entry for id.
C33_GoneAfterAnyCleanup ==
  [][\A sessionId \in 1..Len(sessionObjs) :
       CleanupCompletes(sessionId) => sessionId \notin sessions']_vars

\* C33, amended: a cleanupSession call that goes past the guard has removed
\* the session from the map when it completes, also when threads.del
\* throws; a call that finds a cleanup in progress completes with the entry
\* and the session object as they were, and the entry is removed when the
\* call in progress completes.
C33_GoneAfterProceedingCleanup ==
  [][\A sessionId \in 1..Len(sessionObjs) :
       CleanupCompletes(sessionId) =>
         IF CleanupInProgress(sessionId)
              /\ \A c \in cleanups : c.sessionId = sessionId => ~GDelSettles(c)
           THEN /\ sessionId \in sessions'
                /\ sessionObjs'[sessionId] = sessionObjs[sessionId]
                /\ \E c \in cleanups' : c.sessionId = sessionId
                                        /\ c.del = "pending"
           ELSE sessionId \notin sessions']_vars

\* threads.del has thrown and the session is gone from the map.
C33_Witness ==
  \E c \in cleanups : /\ c.del = "failed"
                      /\ c.sessionId \notin sessions
                      /\ c.sessionId \in 1..Len(sessionObjs)

\* C37: once cleanupSession has set isCleaningUp on a session, no
\* resume_session emits 'session_resumed' for it and no send_prompt passes
\* validation for it.
C37_NoUseUnderCleanup ==
  [][/\ \A i \in 1..Len(emits') :
          emits'[i].event = "session_resumed" =>
            ~CleanupInProgress(emits'[i].data.sessionId)
     /\ (Len(prompts') > Len(prompts)
           /\ prompts'[Len(prompts')].kind = "prompt") =>
          ~CleanupInProgress(prompts'[Len(prompts')].session)]_vars

====
